---- MODULE Spec2Model ----
(***************************************************************************)
(* Model of the holoware template evaluator (Holoware.__call__), its span  *)
(* handlers (SpanHandler), the runtime state it drives (Holophore) and the *)
(* fragment log it writes (Context / Frag).                                *)
(*                                                                         *)
(* Text is modelled as sequences of one-character strings, so that         *)
(* strip(), startswith(), endswith(), slicing and the tag regex are        *)
(* computed on characters, as the Python code computes them.               *)
(***************************************************************************)
EXTENDS Integers, Sequences, FiniteSets, TLC

\* ------------------------------------------------------------------ bounds

\* Longest tag sequence of a template source that is parsed and evaluated.
MaxTags == 3

\* ------------------------------------------------------------ text helpers

NL == "\n"

\* The whitespace characters str.strip() removes, among the model's alphabet.
IsSpace(c) == c \in {" ", NL}

\* Characters matched by the regex class \w, among the model's alphabet.
IsWord(c) == c \in {"a", "b", "c", "d", "e", "f", "g", "h", "i", "j", "k", "l", "m",
                   "n", "o", "p", "q", "r", "s", "t", "u", "v", "w", "x", "y", "z",
                   "B", "H", "P", "Q", "S", "_"}

MinOf(S) == CHOOSE m \in S : \A n \in S : m <= n

MaxOf(S) == CHOOSE m \in S : \A n \in S : m >= n

\* str.lstrip()
LStrip(s) ==
    LET keep == {i \in 1..Len(s) : ~IsSpace(s[i])}
    IN  IF keep = {} THEN <<>> ELSE SubSeq(s, MinOf(keep), Len(s))

\* str.rstrip()
RStrip(s) ==
    LET keep == {i \in 1..Len(s) : ~IsSpace(s[i])}
    IN  IF keep = {} THEN <<>> ELSE SubSeq(s, 1, MaxOf(keep))

\* str.strip()
Strip(s) == LStrip(RStrip(s))

\* str.rstrip(char)
RStripChar(s, ch) ==
    LET keep == {i \in 1..Len(s) : s[i] # ch}
    IN  IF keep = {} THEN <<>> ELSE SubSeq(s, 1, MaxOf(keep))

\* str.startswith(p)
StartsWith(s, p) == Len(p) <= Len(s) /\ SubSeq(s, 1, Len(p)) = p

\* str.endswith(p)
EndsWith(s, p) == Len(p) <= Len(s) /\ SubSeq(s, Len(s) - Len(p) + 1, Len(s)) = p

\* s starts with p at position i (1-based)
MatchAt(s, i, p) == i + Len(p) - 1 <= Len(s) /\ SubSeq(s, i, i + Len(p) - 1) = p

\* "".join(texts)
RECURSIVE Concat(_)
Concat(texts) == IF texts = <<>> THEN <<>> ELSE Head(texts) \o Concat(Tail(texts))

\* the value None, as returned by a sampler or a hook
NoneVal == <<"None">>

\* Python truthiness of an optional string: None and "" are falsy.
Truthy(s) == s # NoneVal /\ s # <<>>

\* the characters of a role name, as an f-string writes them
RoleChars(role) ==
    CASE role = "system" -> <<"s", "y", "s", "t", "e", "m">>
      [] role = "user" -> <<"u", "s", "e", "r">>
      [] role = "assistant" -> <<"a", "s", "s", "i", "s", "t", "a", "n", "t">>
      [] role = "tool" -> <<"t", "o", "o", "l">>
      [] OTHER -> <<"N", "o", "n", "e">>

\* "\n".join(parts)
RECURSIVE JoinLines(_)
JoinLines(parts) ==
    IF parts = <<>> THEN <<>>
    ELSE IF Len(parts) = 1 THEN parts[1]
    ELSE parts[1] \o <<NL>> \o JoinLines(Tail(parts))

\* ------------------------------------------------------------------- spans

\* Holoware: a template is its span list; a ClassSpan without body has
\* body = NoBody, i.e. Python's None.
Holoware(spans) == [present |-> TRUE, spans |-> spans]

NoBody == [present |-> FALSE, spans |-> <<>>]

\* Span: the dataclass fields of every span variant, defaults as in the source.
Span(kind, uuid) ==
    [kind |-> kind, uuid |-> uuid, id |-> <<>>, text |-> <<>>, ego |-> "",
     train |-> FALSE, var_ids |-> <<>>, class_name |-> <<>>, fence |-> <<>>,
     body |-> NoBody]

TextSpan(uuid, text) == [Span("TextSpan", uuid) EXCEPT !.text = text]

EgoSpan(uuid, ego) == [Span("EgoSpan", uuid) EXCEPT !.ego = ego]

ContextResetSpan(uuid, train) == [Span("ContextResetSpan", uuid) EXCEPT !.train = train]

ObjSpan(uuid, var_ids) == [Span("ObjSpan", uuid) EXCEPT !.var_ids = var_ids]

ClassSpan(uuid, class_name) == [Span("ClassSpan", uuid) EXCEPT !.class_name = class_name]

SampleSpan(uuid, id, fence) == [Span("SampleSpan", uuid) EXCEPT !.id = id, !.fence = fence]

\* The loop of Holoware.trained_contexts from 0-based span index i on:
\* current is incremented at every reset that is not the span at index 0,
\* and appended when the reset trains.
RECURSIVE trained_contexts_from(_, _, _, _)
trained_contexts_from(spans, i, current, contexts) ==
    IF i >= Len(spans) THEN contexts
    ELSE LET sp == spans[i + 1]
             cur == IF sp.kind = "ContextResetSpan" /\ i > 0 THEN current + 1 ELSE current
         IN  trained_contexts_from(spans, i + 1, cur,
                 IF sp.kind = "ContextResetSpan" /\ sp.train
                 THEN Append(contexts, cur) ELSE contexts)

\* Holoware.trained_contexts
trained_contexts(w) == trained_contexts_from(w.spans, 0, 0, <<>>)

\* ------------------------------------------------- parsed template sources
\* A template source is a sequence of items: plain text, or a lexed tag
\* <|base[:id] [<>fence]|>, a Class tag optionally followed by an indented
\* body (itself a sequence of items).  The spans are built from the items
\* as the parser builds them, so that the evaluated templates carry the
\* identifiers, egos and span order the parser produces.

TextItem(text) == [tag |-> "text", text |-> text, base |-> <<>>, id |-> <<>>,
                   fence |-> <<>>, body |-> <<>>, indented |-> FALSE]

TagItem(tag, base, id, fence) == [tag |-> tag, text |-> <<>>, base |-> base, id |-> id,
                                  fence |-> fence, body |-> <<>>, indented |-> FALSE]

BodyItem(base, body) == [tag |-> "class", text |-> <<>>, base |-> base, id |-> <<>>,
                         fence |-> <<>>, body |-> body, indented |-> TRUE]

\* the keys of EGO_MAP
EGO_SIGILS == { <<"o", "_", "o">>, <<"@", "_", "@">>, <<"x", "_", "x">> }

\* a string of the characters chars
RECURSIVE StrJoin(_)
StrJoin(chars) == IF chars = <<>> THEN "" ELSE Head(chars) \o StrJoin(Tail(chars))

\* EGO_MAP[sigil], for a key of the map
EGO_MAP(sigil) ==
    CASE sigil = <<"o", "_", "o">> -> "user"
      [] sigil = <<"@", "_", "@">> -> "assistant"
      [] sigil = <<"x", "_", "x">> -> "system"

Digits == <<"1", "2", "3", "4", "5", "6", "7", "8", "9">>

\* uuid.uuid4(): a fresh identifier; here the position of the tag that
\* created the span, prefixed by the position of the enclosing class tags.
Uuid4(prefix, n) == prefix \o <<Digits[n]>>

\* _build_ego_or_sampler: the Ego span, and the Sample span when a fence is
\* given, both take the tag's :id as their uuid ("" when there is none).
\* The role is EGO_MAP.get(ego, ego): a base that is no sigil (a tag that is
\* an ego tag by its fence alone) is the role as written.
build_ego_or_sampler(item) ==
    <<EgoSpan(item.id, IF item.base \in EGO_SIGILS THEN EGO_MAP(item.base)
                       ELSE StrJoin(item.base))>>
    \o (IF item.fence # <<>> THEN <<SampleSpan(item.id, item.id, item.fence)>> ELSE <<>>)

\* _build_context(train)
build_context(item, prefix, n) ==
    <<ContextResetSpan(Uuid4(prefix, n), item.base = <<"+", "+", "+">>)>>

\* Span.set_args on a span built from an item: the fields uuid and id that
\* keywords of the tag set (item.set, on the item of such a tag only).
set_fields(span, item) == IF "set" \in DOMAIN item THEN item.set @@ span ELSE span

\* _build_class
build_class(item, prefix, n) == <<set_fields(ClassSpan(Uuid4(prefix, n), item.base), item)>>

\* _build_obj: var_ids = base.split("|"); an item carries them already split.
build_obj(item, prefix, n) == <<set_fields(ObjSpan(Uuid4(prefix, n), item.base), item)>>

\* build_span / _parse_text: the spans one source item contributes.
build_span(item, prefix, n) ==
    CASE item.tag = "text"  -> <<TextSpan(Uuid4(prefix, n), item.text)>>
      [] item.tag = "ego"   -> build_ego_or_sampler(item)
      [] item.tag = "reset" -> build_context(item, prefix, n)
      [] item.tag = "class" -> build_class(item, prefix, n)
      [] item.tag = "obj"   -> build_obj(item, prefix, n)
      [] item.tag = "empty" -> <<>>

\* HolowareParser state: the spans so far, the current ego ("" is None) and
\* whether parsing has failed (ValueError).
\* A parser as constructed.  ego is "" for self.ego None and for self.ego ""
\* (a role written as nothing: the tag <|:id <>f|>); blank tells the two
\* apart, for the one test of the code that does (self.ego == span.ego).
NewParser == [spans |-> <<>>, ego |-> "", blank |-> FALSE, failed |-> FALSE]

\* HolowareParser._add_implicit_ego_if_needed
add_implicit_ego_if_needed(p, prefix) ==
    IF p.ego # "" THEN p
    ELSE LET stops == {k \in 1..Len(p.spans) :
                          p.spans[k].kind \in {"TextSpan", "EgoSpan", "ContextResetSpan"}}
             text_span_found ==
                 /\ stops # {}
                 /\ p.spans[MinOf(stops)].kind = "TextSpan"
                 /\ Strip(p.spans[MinOf(stops)].text) # <<>>
         IN  IF text_span_found
             THEN [p EXCEPT !.spans = <<EgoSpan(prefix \o <<"e">>, "system")>> \o p.spans,
                            !.ego = "system", !.blank = FALSE]
             ELSE p

\* Variant of _add_span: a Text span of whitespace is added like any other.
add_span_keeping_blank_text(p0, span, prefix) ==
    LET needs_ego == p0.ego = "" /\ span.kind \in {"SampleSpan", "ObjSpan", "ClassSpan"}
        p1 == IF needs_ego THEN add_implicit_ego_if_needed(p0, prefix) ELSE p0
        last_kind == IF p1.spans = <<>> THEN "none" ELSE p1.spans[Len(p1.spans)].kind
        is_text == span.kind = "TextSpan"
    IN  IF p0.failed THEN p0
        ELSE IF needs_ego /\ p1.ego = "" THEN [p1 EXCEPT !.failed = TRUE]
        ELSE IF span.kind = "EgoSpan" /\ p1.ego = span.ego /\ (span.ego = "" => p1.blank)
        THEN p1
        ELSE LET p2 == [p1 EXCEPT !.ego = CASE span.kind = "EgoSpan" -> span.ego
                                            [] span.kind = "ContextResetSpan" -> ""
                                            [] OTHER -> @,
                                  !.blank = CASE span.kind = "EgoSpan" -> span.ego = ""
                                              [] span.kind = "ContextResetSpan" -> FALSE
                                              [] OTHER -> @]
                 stripped == IF is_text /\ last_kind \notin {"TextSpan", "none"}
                             THEN [span EXCEPT !.text = LStrip(@)] ELSE span
             IN  IF is_text /\ last_kind = "TextSpan"
                 THEN [p2 EXCEPT !.spans[Len(p2.spans)].text = @ \o span.text]
                 ELSE [p2 EXCEPT !.spans = Append(@, stripped)]

\* HolowareParser._add_span
add_span(p0, span, prefix) ==
    LET needs_ego == p0.ego = "" /\ span.kind \in {"SampleSpan", "ObjSpan", "ClassSpan"}
        p1 == IF needs_ego THEN add_implicit_ego_if_needed(p0, prefix) ELSE p0
        last_kind == IF p1.spans = <<>> THEN "none" ELSE p1.spans[Len(p1.spans)].kind
        is_text == span.kind = "TextSpan"
    IN  IF p0.failed THEN p0
        ELSE IF needs_ego /\ p1.ego = "" THEN [p1 EXCEPT !.failed = TRUE]
        ELSE IF span.kind = "EgoSpan" /\ p1.ego = span.ego /\ (span.ego = "" => p1.blank)
        THEN p1
        ELSE LET p2 == [p1 EXCEPT !.ego = CASE span.kind = "EgoSpan" -> span.ego
                                            [] span.kind = "ContextResetSpan" -> ""
                                            [] OTHER -> @,
                                  !.blank = CASE span.kind = "EgoSpan" -> span.ego = ""
                                              [] span.kind = "ContextResetSpan" -> FALSE
                                              [] OTHER -> @]
                 stripped == IF is_text /\ last_kind \notin {"TextSpan", "none"}
                             THEN [span EXCEPT !.text = LStrip(@)] ELSE span
             IN  IF is_text /\ last_kind = "TextSpan"
                 THEN [p2 EXCEPT !.spans[Len(p2.spans)].text = @ \o span.text]
                 ELSE IF is_text /\ Strip(stripped.text) = <<>> THEN p2
                 ELSE [p2 EXCEPT !.spans = Append(@, stripped)]

RECURSIVE add_spans(_, _, _)
add_spans(p, spanbuf, prefix) ==
    IF spanbuf = <<>> THEN p
    ELSE add_spans(add_span(p, Head(spanbuf), prefix), Tail(spanbuf), prefix)

\* The loop of _finalize_text_span from 0-based index i on: last is the
\* position of last_span (0: None).  A Text span that follows a Text span is
\* added to it and popped from the list being enumerated, so the span that
\* takes its place is not visited.
RECURSIVE finalize_text_span_from(_, _, _)
finalize_text_span_from(spans, i, last) ==
    IF i >= Len(spans) THEN spans
    ELSE IF spans[i + 1].kind = "TextSpan" /\ last > 0 /\ spans[last].kind = "TextSpan"
    THEN finalize_text_span_from(
             [k \in 1..(Len(spans) - 1) |->
                 IF k = last THEN [spans[k] EXCEPT !.text = @ \o spans[i + 1].text]
                 ELSE IF k <= i THEN spans[k] ELSE spans[k + 1]],
             i + 1, last)
    ELSE finalize_text_span_from(spans, i + 1, i + 1)

\* HolowareParser._finalize_text_span
finalize_text_span(spans) == finalize_text_span_from(spans, 0, 0)

\* ------------------------------------------------------ the scanner
\* The source as the parser reads it, character by character.

BS == "\\"

\* str.split(ch)
RECURSIVE Split(_, _)
Split(s, ch) ==
    LET at == {i \in 1..Len(s) : s[i] = ch}
    IN  IF at = {} THEN <<s>>
        ELSE <<SubSeq(s, 1, MinOf(at) - 1)>> \o Split(SubSeq(s, MinOf(at) + 1, Len(s)), ch)

\* Variant of filter_comments: a line that holds a # anywhere is removed.
filter_comments_any_hash(content) ==
    JoinLines(SelectSeq(Split(content, NL),
                        LAMBDA line : \A i \in 1..Len(line) : line[i] # "#"))

\* Variant of filter_comments: only a line that begins with # is removed.
filter_comments_at_line_start(content) ==
    JoinLines(SelectSeq(Split(content, NL),
                        LAMBDA line : ~StartsWith(line, <<"#">>)))

\* filter_comments: the lines whose first non-blank character is # are
\* removed
filter_comments(content) ==
    JoinLines(SelectSeq(Split(content, NL),
                        LAMBDA line : ~StartsWith(Strip(line), <<"#">>)))

\* str.replace(old, new): the occurrences of old from the left, none
\* overlapping another
RECURSIVE Replace(_, _, _)
Replace(s, old, new) ==
    LET at == {i \in 1..Len(s) : MatchAt(s, i, old)}
    IN  IF at = {} THEN s
        ELSE SubSeq(s, 1, MinOf(at) - 1) \o new
             \o Replace(SubSeq(s, MinOf(at) + Len(old), Len(s)), old, new)

\* str.find(sub, pos), positions counted from 0; -1 when there is none
Find(s, sub, pos) ==
    LET at == {i \in pos..(Len(s) - 1) : MatchAt(s, i + 1, sub)}
    IN  IF at = {} THEN -1 ELSE MinOf(at)

\* the number of backslashes that end code[0:found_pos]
RECURSIVE num_backslashes(_, _)
num_backslashes(code, found_pos) ==
    IF found_pos >= 1 /\ code[found_pos] = BS
    THEN 1 + num_backslashes(code, found_pos - 1)
    ELSE 0

\* Variant of _find_next_span_start: the backslashes before <| are not
\* counted.
find_next_span_start_unescaped(code, pos) == Find(code, <<"<", "|">>, pos)

\* HolowareParser._find_next_span_start: the next <| with an even number of
\* backslashes before it
RECURSIVE find_next_span_start(_, _)
find_next_span_start(code, pos) ==
    LET found_pos == Find(code, <<"<", "|">>, pos)
    IN  IF found_pos = -1 THEN -1
        ELSE IF num_backslashes(code, found_pos) % 2 = 1
        THEN find_next_span_start(code, found_pos + 1)
        ELSE found_pos

\* HolowareParser._parse_text: the text is unescaped and added as a Text
\* span
parse_text(p, text, prefix, n) ==
    LET processed_text == Replace(Replace(text, <<BS, BS>>, <<BS>>),
                                  <<BS, "<", "|">>, <<"<", "|">>)
    IN  IF text = <<>> \/ processed_text = <<>> THEN p
        ELSE add_span(p, TextSpan(Uuid4(prefix, n), processed_text), prefix)

\* ------------------------------------------------------- lexing of a tag
\* The text between <| and |> is split into words as a shell splits them,
\* the words are sorted into base, positional and keyword arguments, and the
\* grammar builds the spans of the tag.

QUOTES == {"'", "\""}

\* shlex.split(tag), one character at a time.  state is " " between two
\* words, "a" inside a word, a quote inside a quoted part, a backslash after
\* an escape; escapedstate is the state an escape returns to.
RECURSIVE shlex_from(_, _, _, _, _, _, _)
shlex_from(s, i, state, escapedstate, token, quoted, parts) ==
    IF i > Len(s)
    THEN IF state \in QUOTES THEN [raised |-> "QuoteError", parts |-> <<>>]
         ELSE IF state = BS THEN [raised |-> "EscapeError", parts |-> <<>>]
         ELSE [raised |-> "",
               parts |-> IF token # <<>> \/ quoted THEN Append(parts, token) ELSE parts]
    ELSE LET c == s[i]
         IN  CASE state = " " ->
                    IF IsSpace(c)
                    THEN shlex_from(s, i + 1, " ", escapedstate, <<>>, FALSE, parts)
                    ELSE IF c = BS
                    THEN shlex_from(s, i + 1, BS, "a", token, quoted, parts)
                    ELSE IF c \in QUOTES
                    THEN shlex_from(s, i + 1, c, escapedstate, token, TRUE, parts)
                    ELSE shlex_from(s, i + 1, "a", escapedstate, <<c>>, quoted, parts)
               [] state \in QUOTES ->
                    IF c = state
                    THEN shlex_from(s, i + 1, "a", escapedstate, token, quoted, parts)
                    ELSE IF c = BS /\ state = "\""
                    THEN shlex_from(s, i + 1, BS, state, token, quoted, parts)
                    ELSE shlex_from(s, i + 1, state, escapedstate, Append(token, c),
                                    quoted, parts)
               [] state = BS ->
                    shlex_from(s, i + 1, escapedstate, escapedstate,
                               token
                               \o (IF escapedstate \in QUOTES /\ c # BS /\ c # escapedstate
                                   THEN <<BS>> ELSE <<>>)
                               \o <<c>>,
                               quoted, parts)
               [] OTHER ->
                    IF IsSpace(c)
                    THEN shlex_from(s, i + 1, " ", escapedstate, <<>>, FALSE,
                                    IF token # <<>> \/ quoted
                                    THEN Append(parts, token) ELSE parts)
                    ELSE IF c \in QUOTES
                    THEN shlex_from(s, i + 1, c, escapedstate, token, TRUE, parts)
                    ELSE IF c = BS
                    THEN shlex_from(s, i + 1, BS, "a", token, quoted, parts)
                    ELSE shlex_from(s, i + 1, "a", escapedstate, Append(token, c),
                                    quoted, parts)

\* shlex.split(tag): the words, or the ValueError raised
shlex_split(tag) == shlex_from(tag, 1, " ", "a", <<>>, FALSE, <<>>)

\* a dict in insertion order: d[key] = value
DictSet(d, key, value) ==
    IF \E i \in 1..Len(d) : d[i].key = key
    THEN [i \in 1..Len(d) |-> IF d[i].key = key THEN [key |-> key, value |-> value]
                              ELSE d[i]]
    ELSE Append(d, [key |-> key, value |-> value])

\* key in d
DictHas(d, key) == \E i \in 1..Len(d) : d[i].key = key

\* d.get(key, "")
DictGet(d, key) ==
    IF DictHas(d, key) THEN d[CHOOSE i \in 1..Len(d) : d[i].key = key].value ELSE <<>>

ANGLE == <<"<", ">">>

\* The loop of parse_span_tag over parts[1:] from the word at index i on:
\* a word with = is a keyword argument split at its first =, else a word
\* that starts with <> sets the keyword <>, else the word is positional.
RECURSIVE parse_span_tag_from(_, _, _, _)
parse_span_tag_from(parts, i, kargs, kwargs) ==
    IF i > Len(parts)
    THEN [raised |-> "", base |-> parts[1], kargs |-> kargs, kwargs |-> kwargs]
    ELSE LET part == parts[i]
             eq == {k \in 1..Len(part) : part[k] = "="}
         IN  IF eq # {}
             THEN parse_span_tag_from(parts, i + 1, kargs,
                      DictSet(kwargs, SubSeq(part, 1, MinOf(eq) - 1),
                              SubSeq(part, MinOf(eq) + 1, Len(part))))
             ELSE IF StartsWith(part, ANGLE)
             THEN IF Len(part) > 2
                  THEN parse_span_tag_from(parts, i + 1, kargs,
                           DictSet(kwargs, ANGLE, SubSeq(part, 3, Len(part))))
                  ELSE [raised |-> "EmptyAngleAttr", base |-> <<>>, kargs |-> <<>>,
                        kwargs |-> <<>>]
             ELSE parse_span_tag_from(parts, i + 1, Append(kargs, part), kwargs)

\* parse_span_tag(tag): base, kargs, kwargs, or the ValueError raised
parse_span_tag(tag) ==
    LET split == shlex_split(tag)
    IN  IF split.raised # ""
        THEN [raised |-> split.raised, base |-> <<>>, kargs |-> <<>>, kwargs |-> <<>>]
        ELSE IF split.parts = <<>>
        THEN [raised |-> "", base |-> <<>>, kargs |-> <<>>, kwargs |-> <<>>]
        ELSE parse_span_tag_from(split.parts, 2, <<>>, <<>>)

FENCE == <<"f", "e", "n", "c", "e">>

\* is_ego_or_sampler
is_ego_or_sampler(base, kargs, kwargs) ==
    base \in EGO_SIGILS \/ DictHas(kwargs, FENCE) \/ DictHas(kwargs, ANGLE)

RESET_SIGILS ==
    { <<"+", "+", "+">>, <<"=", "=", "=">>, <<"-", "-", "-">>, <<"^", "^", "^">>,
      <<"#", "#", "#">>, <<"@", "@", "@">>, <<"\"", "\"", "\"">>, <<"*", "*", "*">>,
      <<"%", "%", "%">> }

\* is_context_reset
is_context_reset(base, kargs, kwargs) == base \in RESET_SIGILS

\* EGO_MAP.get(ego, ego), the role spelled out
EGO_MAP_get(sigil) ==
    IF sigil \in EGO_SIGILS THEN RoleChars(EGO_MAP(sigil)) ELSE sigil

\* _build_ego_or_sampler on the words of a tag: base.split(":", 1) gives
\* the ego and the id; the Sample span is built when a fence is given.
tag_ego_or_sampler(base, kargs, kwargs) ==
    LET colon == {k \in 1..Len(base) : base[k] = ":"}
        ego_part == IF colon = {} THEN base ELSE SubSeq(base, 1, MinOf(colon) - 1)
        span_id == IF colon = {} THEN <<>> ELSE SubSeq(base, MinOf(colon) + 1, Len(base))
        sampler_kwargs == SelectSeq(kwargs, LAMBDA kv : kv.key \notin {ANGLE, FENCE})
        fence == IF DictGet(kwargs, ANGLE) # <<>> THEN DictGet(kwargs, ANGLE)
                 ELSE DictGet(kwargs, FENCE)
    IN  <<[kind |-> "EgoSpan", ego |-> EGO_MAP_get(ego_part), uuid |-> span_id]>>
        \o (IF fence # <<>>
            THEN <<[kind |-> "SampleSpan", uuid |-> span_id, id |-> span_id,
                    kargs |-> kargs, kwargs |-> sampler_kwargs, fence |-> fence]>>
            ELSE <<>>)

\* _build_context(train = (base == "+++"))
tag_context(base, kargs, kwargs) ==
    <<[kind |-> "ContextResetSpan", train |-> base = <<"+", "+", "+">>]>>

\* fields(self): the names of the dataclass fields of a Span, a ClassSpan
\* and an ObjSpan
SpanFields == {"uuid", "id", "kargs", "kwargs"}

ClassSpanFields == SpanFields \cup {"class_name", "body"}

ObjSpanFields == SpanFields \cup {"var_ids"}

\* The loop of Span.set_args over kw: a keyword named after a field of the
\* span is assigned to the field (setattr).
RECURSIVE setattrs(_, _, _)
setattrs(span, field_names, kw) ==
    IF kw = <<>> THEN span
    ELSE setattrs(IF StrJoin(Head(kw).key) \in field_names
                  THEN (StrJoin(Head(kw).key) :> Head(kw).value) @@ span
                  ELSE span,
                  field_names, Tail(kw))

\* Span.set_args(k, kw, {}): kargs is k, then the keywords named after
\* fields are assigned to the fields, and kwargs is the other keywords.
set_args(span, field_names, k, kw) ==
    ("kwargs" :> SelectSeq(kw, LAMBDA kv : StrJoin(kv.key) \notin field_names))
        @@ setattrs(("kargs" :> k) @@ span, field_names, kw)

\* _build_class: ClassSpan(class_name = base).set_args(kargs, kwargs, {}),
\* then body = None (a span is shown without its body, and with its uuid
\* when a keyword set it).
tag_class(base, kargs, kwargs) ==
    LET no_body(span) == [f \in DOMAIN span \ {"body"} |-> span[f]]
    IN  <<no_body(set_args([kind |-> "ClassSpan", class_name |-> base],
                           ClassSpanFields, kargs, kwargs))>>

\* _build_obj: var_ids = [v.strip() for v in base.split("|")], then
\* set_args(kargs, kwargs, {})
tag_obj(base, kargs, kwargs) ==
    LET ids == Split(base, "|")
    IN  <<set_args([kind |-> "ObjSpan", var_ids |-> [k \in 1..Len(ids) |-> Strip(ids[k])]],
                   ObjSpanFields, kargs, kwargs)>>

UPPER == {"A", "B", "C", "D", "E", "F", "G", "H", "I", "J", "K", "L", "M", "N", "O", "P",
          "Q", "R", "S", "T", "U", "V", "W", "X", "Y", "Z"}

\* build_span(out, spantext) on the text of a tag: the spans appended to
\* out, or the ValueError raised.  The first rule of the grammar that
\* matches the base builds the spans; without one a base that starts with a
\* capital builds a Class span and any other an Obj span.
tag_spans(spantext) ==
    LET tag_content == Strip(spantext)
        t == parse_span_tag(tag_content)
    IN  IF tag_content = <<>> THEN [raised |-> "", out |-> <<>>]
        ELSE IF t.raised # "" THEN [raised |-> t.raised, out |-> <<>>]
        ELSE [raised |-> "",
              out |-> IF is_ego_or_sampler(t.base, t.kargs, t.kwargs)
                      THEN tag_ego_or_sampler(t.base, t.kargs, t.kwargs)
                      ELSE IF is_context_reset(t.base, t.kargs, t.kwargs)
                      THEN tag_context(t.base, t.kargs, t.kwargs)
                      ELSE IF t.base = <<>> THEN <<>>
                      ELSE IF t.base[1] \in UPPER
                      THEN tag_class(t.base, t.kargs, t.kwargs)
                      ELSE tag_obj(t.base, t.kargs, t.kwargs)]

\* build_span on the text of a tag, as the item the spans are built from:
\* the words of the tag select the rule of the grammar, a ValueError of the
\* lexer is an item of its own.
tag_item(spantext) ==
    LET \* the item with the fields uuid and id of the span, when set_args
        \* has set them
        with_set(it, span) ==
          IF DOMAIN span \cap {"uuid", "id"} = {} THEN it
          ELSE [set |-> [f \in DOMAIN span \cap {"uuid", "id"} |-> span[f]]] @@ it
        class(span) == with_set(TagItem("class", span.class_name, <<>>, <<>>), span)
        \* var_ids set by a keyword is a string, which the handler goes
        \* through character by character: the list of its characters
        obj(span, is_str) ==
          with_set(TagItem("obj",
                           IF is_str THEN [k \in 1..Len(span.var_ids) |-> <<span.var_ids[k]>>]
                           ELSE span.var_ids, <<>>, <<>>), span)
        item(tag_content, t) ==
          LET colon == {k \in 1..Len(t.base) : t.base[k] = ":"}
          IN
        IF tag_content = <<>> THEN TagItem("empty", <<>>, <<>>, <<>>)
        ELSE IF t.raised # "" THEN TagItem("error", <<>>, <<>>, <<>>)
        ELSE IF is_ego_or_sampler(t.base, t.kargs, t.kwargs)
        THEN TagItem("ego",
                     IF colon = {} THEN t.base ELSE SubSeq(t.base, 1, MinOf(colon) - 1),
                     IF colon = {} THEN <<>>
                     ELSE SubSeq(t.base, MinOf(colon) + 1, Len(t.base)),
                     IF DictGet(t.kwargs, ANGLE) # <<>> THEN DictGet(t.kwargs, ANGLE)
                     ELSE DictGet(t.kwargs, FENCE))
        ELSE IF is_context_reset(t.base, t.kargs, t.kwargs)
        THEN TagItem("reset", t.base, <<>>, <<>>)
        ELSE IF t.base = <<>> THEN TagItem("empty", <<>>, <<>>, <<>>)
        ELSE IF t.base[1] \in UPPER THEN class(tag_class(t.base, t.kargs, t.kwargs)[1])
        ELSE obj(tag_obj(t.base, t.kargs, t.kwargs)[1],
                 \E i \in 1..Len(t.kwargs) : StrJoin(t.kwargs[i].key) = "var_ids")
    IN  item(Strip(spantext), parse_span_tag(Strip(spantext)))

\* str.splitlines(True): the lines, each with its line break
RECURSIVE SplitLines(_)
SplitLines(s) ==
    LET at == {i \in 1..Len(s) : s[i] = NL}
    IN  IF s = <<>> THEN <<>>
        ELSE IF at = {} THEN <<s>>
        ELSE <<SubSeq(s, 1, MinOf(at))>> \o SplitLines(SubSeq(s, MinOf(at) + 1, Len(s)))

\* len(line) - len(line.lstrip(" "))
LeadingSpaces(line) ==
    LET other == {i \in 1..Len(line) : line[i] # " "}
    IN  IF other = {} THEN Len(line) ELSE MinOf(other) - 1

\* HolowareParser._read_indented_block_content: a blank rest of the line of
\* the tag is skipped; the leading spaces of the next line are the
\* indentation of the block (no block without them); the block is that
\* line and the lines after it that are blank or indented at least as much.
read_indented_block_content(code, start_pos) ==
    LET lines0 == SplitLines(SubSeq(code, start_pos + 1, Len(code)))
        skip == lines0 # <<>> /\ Strip(lines0[1]) = <<>>
        start == IF skip THEN start_pos + Len(lines0[1]) ELSE start_pos
        lines == IF skip THEN Tail(lines0) ELSE lines0
        indentation == LeadingSpaces(lines[1])
        inside(k) == Strip(lines[k]) = <<>> \/ LeadingSpaces(lines[k]) >= indentation
        count == MaxOf({k \in 0..Len(lines) : \A j \in 1..k : inside(j)})
        content == Concat(SubSeq(lines, 1, count))
    IN  IF lines = <<>> \/ indentation = 0 \/ count = 0
        THEN [none |-> TRUE, content |-> <<>>, pos |-> start]
        ELSE [none |-> FALSE, content |-> content, pos |-> start + Len(content)]

\* textwrap.dedent: the lines of blanks only lose their blanks, the other
\* lines lose the leading blanks they have in common
dedent(text) ==
    LET lines == SplitLines(text)
        blank(line) == \A i \in 1..Len(line) : line[i] \in {" ", NL}
        full == {k \in 1..Len(lines) : ~blank(lines[k])}
        margin == IF full = {} THEN 0 ELSE MinOf({LeadingSpaces(lines[k]) : k \in full})
    IN  Concat([k \in 1..Len(lines) |->
                   IF blank(lines[k])
                   THEN SelectSeq(lines[k], LAMBDA ch : ch = NL)
                   ELSE SubSeq(lines[k], margin + 1, Len(lines[k]))])

RECURSIVE parse_step(_, _)
RECURSIVE parse_loop(_, _)
RECURSIVE parse_indented_block(_, _, _)

\* HolowareParser(code).parse(): the comments are filtered, the loop runs
\* to the end of the code or to a ValueError, the texts are finalized
parse_code(code, prefix) ==
    LET c == parse_loop([code |-> filter_comments(code), pos |-> 0, n |-> 1,
                         p |-> NewParser], prefix)
    IN  [failed |-> c.p.failed, spans |-> finalize_text_span(c.p.spans)]

\* HolowareParser._parse_indented_block: no body without a block or for a
\* block that is blank once dedented; else the block is parsed by a fresh
\* parser
parse_indented_block(code, start_pos, prefix) ==
    LET parsed(block, body) ==
          [body |-> Holoware(body.spans), pos |-> block.pos, failed |-> body.failed]
        dedented(block, dedented_block) ==
          IF Strip(dedented_block) = <<>>
          THEN [body |-> NoBody, pos |-> block.pos, failed |-> FALSE]
          ELSE parsed(block, parse_code(dedented_block, prefix))
        read(block) ==
          IF block.none THEN [body |-> NoBody, pos |-> start_pos, failed |-> FALSE]
          ELSE dedented(block, dedent(block.content))
    IN  read(read_indented_block_content(code, start_pos))

\* One iteration of the loop of parse() on a parser c with code, pos, the
\* spans p and the count n of iterations: without a tag ahead the rest is
\* text and the loop is left; else the text before the tag, then the tag up
\* to |> (ValueError when it is not closed) and _parse_span on its text:
\* the spans of the tag are added, and when the last span of the list is
\* then a ClassSpan the indented block at pos, if any, becomes its body.
parse_step(c, prefix) ==
    LET next_span_pos == find_next_span_start(c.code, c.pos)
        textp == IF next_span_pos > c.pos
                 THEN parse_text(c.p, SubSeq(c.code, c.pos + 1, next_span_pos), prefix, c.n)
                 ELSE c.p
        end == Find(c.code, <<"|", ">">>, next_span_pos + 2)
        build(p, item) ==
          IF item.tag = "error" THEN [p EXCEPT !.failed = TRUE]
          ELSE add_spans(p, build_span(item, prefix \o <<"<">>, c.n), prefix)
        parse_span(p1, block) ==
          LET k == Len(p1.spans)
              reads == ~p1.failed /\ k > 0 /\ p1.spans[k].kind = "ClassSpan"
          IN  IF ~reads
              THEN [c EXCEPT !.p = p1, !.pos = end + 2, !.n = @ + 1]
              ELSE IF block.failed
              THEN [c EXCEPT !.p = [p1 EXCEPT !.failed = TRUE], !.pos = end + 2,
                             !.n = @ + 1]
              ELSE IF block.body.present
              THEN [c EXCEPT !.p = [p1 EXCEPT !.spans[k].body = block.body],
                             !.pos = block.pos, !.n = @ + 1]
              ELSE [c EXCEPT !.p = p1, !.pos = end + 2, !.n = @ + 1]
    IN  IF next_span_pos = -1
        THEN [c EXCEPT !.p = parse_text(c.p, SubSeq(c.code, c.pos + 1, Len(c.code)),
                                        prefix, c.n),
                       !.pos = Len(c.code), !.n = @ + 1]
        ELSE IF end = -1
        THEN [c EXCEPT !.p = [textp EXCEPT !.failed = TRUE], !.pos = next_span_pos,
                       !.n = @ + 1]
        ELSE parse_span(build(textp, tag_item(SubSeq(c.code, next_span_pos + 3, end))),
                        parse_indented_block(c.code, end + 2,
                                             Uuid4(prefix \o <<"<">>, c.n)))

\* the loop of parse()
parse_loop(c, prefix) ==
    IF c.p.failed \/ c.pos >= Len(c.code) THEN c
    ELSE parse_loop(parse_step(c, prefix), prefix)

\* one iteration of the loop of parse() of the outermost parser
parse_iteration(c) == parse_step(c, <<"#">>)

\* ------------------------------------------------- the sources of the items
\* The characters a sequence of items stands for: a text as it is, a tag
\* between <| and |>, the body of a class tag on the lines after the tag,
\* indented by two blanks, and a line break after the body when an item
\* follows it.

\* sep.join(parts)
RECURSIVE Join(_, _)
Join(parts, sep) ==
    IF parts = <<>> THEN <<>>
    ELSE IF Len(parts) = 1 THEN parts[1]
    ELSE parts[1] \o sep \o Join(Tail(parts), sep)

\* the text of a tag between <| and |>: base[:id] [<>fence], the ids of an
\* object tag joined by |
TagText(item) ==
    CASE item.tag = "ego" ->
             item.base \o (IF item.id # <<>> THEN <<":">> \o item.id ELSE <<>>)
             \o (IF item.fence # <<>> THEN <<" ">> \o ANGLE \o item.fence ELSE <<>>)
      [] item.tag = "obj" -> Join(item.base, <<"|">>)
      [] OTHER -> item.base

\* every line of a text behind two blanks
Indented(text) ==
    LET lines == SplitLines(text)
    IN  Concat([k \in 1..Len(lines) |-> <<" ", " ">> \o lines[k]])

RECURSIVE SourceOf(_)

\* the characters of one item; followed: an item comes after it
ItemSource(item, followed) ==
    IF item.tag = "text" THEN item.text
    ELSE <<"<", "|">> \o TagText(item) \o <<"|", ">">>
         \o (IF item.indented
             THEN <<NL>> \o Indented(SourceOf(item.body))
                  \o (IF followed THEN <<NL>> ELSE <<>>)
             ELSE <<>>)

\* the characters of a sequence of items
SourceOf(items) ==
    Concat([k \in 1..Len(items) |-> ItemSource(items[k], k < Len(items))])

\* One iteration of the loop of parse() on the item at index n: a text is
\* added as a Text span; the spans of a tag are added, and when the last
\* span of the list is then a ClassSpan the indented block that begins
\* right after the tag, if any, becomes its body and the items it is made
\* of are passed over.  The next index is returned with the parser.
parse_item(p, items, n, prefix) ==
    LET item == items[n]
        tag_len == Len(TagText(item)) + 4
        \* the source from item n to item n + j
        upto(j) == Concat([k \in 1..(j + 1) |->
                              ItemSource(items[n + k - 1], n + k - 1 < Len(items))])
        rest == upto(Len(items) - n)
        parse_span(p1, block) ==
          LET k == Len(p1.spans)
              reads == ~p1.failed /\ k > 0 /\ p1.spans[k].kind = "ClassSpan"
              passed == {j \in 0..(Len(items) - n) : Len(upto(j)) - tag_len <= block.pos}
          IN  IF item.tag = "text" \/ ~reads THEN [p |-> p1, n |-> n + 1]
              ELSE IF block.failed
              THEN [p |-> [p1 EXCEPT !.failed = TRUE], n |-> n + 1]
              ELSE IF block.body.present
              THEN [p |-> [p1 EXCEPT !.spans[k].body = block.body],
                    n |-> n + 1 + MaxOf(passed)]
              ELSE [p |-> p1, n |-> n + 1]
    IN  parse_span(add_spans(p, build_span(item, prefix, n), prefix),
                   parse_indented_block(SubSeq(rest, tag_len + 1, Len(rest)), 0,
                                        Uuid4(prefix, n)))

\* the loop of parse() from the item at index n on; a ValueError ends it
RECURSIVE parse_from(_, _, _, _)
parse_from(p, items, n, prefix) ==
    LET next(r) == parse_from(r.p, items, r.n, prefix)
    IN  IF n > Len(items) \/ p.failed THEN p
        ELSE next(parse_item(p, items, n, prefix))

parse(items) ==
    LET p == parse_from(NewParser, items, 1, <<"#">>)
    IN  [p EXCEPT !.spans = finalize_text_span(@)]

\* ------------------------------------------------- bound-object classes
\* The classes a template can name, by the lifecycle hooks each defines
\* (the mock classes of tests/test_holoware.py, and variants without some
\* hooks).  holo_returns is what __holo__ returns; init_returns names the
\* class of the object __holo_init__ returns (NoneVal: it returns None).

ClassDef(holostatic, has_holo_init, init_returns, has_holo, holo_returns, has_holo_end) ==
    [holostatic |-> holostatic, has_holo_init |-> has_holo_init,
     init_returns |-> init_returns, has_holo |-> has_holo,
     holo_returns |-> holo_returns, has_holo_end |-> has_holo_end]

\* HoloClass of the tests: every hook, __holo__ returns text.
HoloClass == ClassDef(FALSE, TRUE, NoneVal, TRUE, <<"H", "!">>, TRUE)

\* A class whose __holo__ returns None, as MockFidelityAttractor's does.
QuietClass == ClassDef(FALSE, FALSE, NoneVal, TRUE, NoneVal, FALSE)

\* A class without __holo__, usable through its indented body only.
BodyClass == ClassDef(FALSE, FALSE, NoneVal, FALSE, NoneVal, TRUE)

\* A class decorated with @holostatic.
StaticClass == ClassDef(TRUE, TRUE, NoneVal, TRUE, <<"S", "!">>, TRUE)

\* A class whose __holo_init__ returns a QuietClass object in its place.
ProxyClass == ClassDef(FALSE, TRUE, <<"Q">>, FALSE, NoneVal, FALSE)

ClassDefs == (<<"H">> :> HoloClass) @@ (<<"Q">> :> QuietClass) @@ (<<"B">> :> BodyClass)
             @@ (<<"S">> :> StaticClass) @@ (<<"P">> :> ProxyClass)

\* errloom.lib.discovery.get_class: the external class registry.
Registry == {<<"Q">>, <<"B">>, <<"S">>, <<"P">>}

discovery_get_class(classname) == IF classname \in Registry THEN classname ELSE NoneVal

\* Values of the env map: a string, or a class object.
EnvStr(s) == [isClass |-> FALSE, val |-> s]

EnvClass(c) == [isClass |-> TRUE, val |-> c]

\* Python truthiness of an env value
EnvTruthy(v) == v.isClass \/ v.val # <<>>

\* str(value)
StrOf(v) ==
    IF v.isClass
    THEN <<"<", "c", "l", "a", "s", "s", " ", "'">> \o v.val \o <<"'", ">">>
    ELSE v.val

\* ------------------------------------------------------- fragments, rollout

FROZEN == "frozen"

REINFORCE == "reinforce"

\* Frag
Frag(text, ego, type) == [text |-> text, ego |-> ego, type |-> type]

\* Variant of Context.add_frag: the fragment is inserted at the head of the list.
Context_add_frag_at_head(fragments, ego, text, type) ==
    <<Frag(text, ego, type)>> \o fragments

\* Context.add_frag: the fragment is appended to the context's list.
Context_add_frag(fragments, ego, text, type) == Append(fragments, Frag(text, ego, type))

\* Rollout.new_context: a new, empty context becomes the active (last) one.
Rollout_new_context(ctxs) == Append(ctxs, <<>>)

\* Rollout.ensure_context: a first context is created when there is none.
Rollout_ensure_context(ctxs) == IF ctxs = <<>> THEN <<<<>>>> ELSE ctxs

\* Rollout.add_frag(ego, type, text): appended to the active context.
Rollout_add_frag(ctxs, ego, type, text) ==
    LET c == Rollout_ensure_context(ctxs)
    IN  [c EXCEPT ![Len(c)] = Context_add_frag(@, ego, text, type)]

\* FragList.string, of a list of references <<context, index>> to fragments
RECURSIVE FragList_string(_, _)
FragList_string(ctxs, refs) ==
    IF refs = <<>> THEN <<>>
    ELSE ctxs[Head(refs)[1]][Head(refs)[2]].text \o FragList_string(ctxs, Tail(refs))

\* ------------------------------------------------------------ the renderer

\* Frag.ego = None
EgoNone == "None"

\* current_role = None, in to_api_messages
NoRole == ""

\* _normalize_role of to_api_messages
normalize_role(raw, is_first) ==
    IF raw \in {"system", "user", "assistant"} THEN raw
    ELSE IF raw = EgoNone /\ is_first THEN "system"
    ELSE "user"

\* an APIChat message
Message(role, content) == [role |-> role, content |-> content]

\* Variant of the loop of to_api_messages: every fragment finalizes the
\* message before it, whatever its role.
RECURSIVE to_api_messages_from_each_fragment(_, _, _, _)
to_api_messages_from_each_fragment(fragments, i, st, render_dry) ==
    IF i >= Len(fragments) THEN st
    ELSE LET frag == fragments[i + 1]
             normalized_role == normalize_role(frag.ego, i = 0)
             s == Concat(st.texts)
             next ==
                 IF st.current_role = NoRole
                 THEN [st EXCEPT !.current_role = normalized_role, !.texts = <<frag.text>>]
                 ELSE [messages |-> IF s # <<>> \/ render_dry
                                    THEN Append(st.messages, Message(st.current_role, Strip(s)))
                                    ELSE st.messages,
                       current_role |-> normalized_role,
                       texts |-> <<frag.text>>]
         IN  to_api_messages_from_each_fragment(fragments, i + 1, next, render_dry)

\* The loop of to_api_messages over the fragments from 0-based index i on;
\* st holds messages, texts and current_role.
RECURSIVE to_api_messages_from(_, _, _, _)
to_api_messages_from(fragments, i, st, render_dry) ==
    IF i >= Len(fragments) THEN st
    ELSE LET frag == fragments[i + 1]
             normalized_role == normalize_role(frag.ego, i = 0)
             s == Concat(st.texts)
             next ==
                 IF st.current_role = NoRole
                 THEN [st EXCEPT !.current_role = normalized_role, !.texts = <<frag.text>>]
                 ELSE IF normalized_role = st.current_role
                 THEN [st EXCEPT !.texts = Append(@, frag.text)]
                 ELSE [messages |-> IF s # <<>> \/ render_dry
                                    THEN Append(st.messages, Message(st.current_role, Strip(s)))
                                    ELSE st.messages,
                       current_role |-> normalized_role,
                       texts |-> <<frag.text>>]
         IN  to_api_messages_from(fragments, i + 1, next, render_dry)

\* Context.to_api_messages: the loop, then the tail is flushed
to_api_messages(fragments, render_dry) ==
    LET st == to_api_messages_from(fragments, 0,
                  [messages |-> <<>>, texts |-> <<>>, current_role |-> NoRole], render_dry)
        s == Concat(st.texts)
    IN  IF st.current_role # NoRole /\ (s # <<>> \/ render_dry)
        THEN Append(st.messages, Message(st.current_role, s))
        ELSE st.messages

IM_START == <<"<", "|", "i", "m", "_", "s", "t", "a", "r", "t", "|", ">">>

IM_END == <<"<", "|", "i", "m", "_", "e", "n", "d", "|", ">">>

\* f"<|im_start|>{role}\n{content_text}\n<|im_end|>"
Block(msg) == IM_START \o RoleChars(msg.role) \o <<NL>> \o msg.content \o <<NL>> \o IM_END

\* Context.to_api_string
to_api_string(fragments) ==
    LET messages == to_api_messages(fragments, FALSE)
        blocks == [n \in 1..Len(messages) |-> Block(messages[n])]
        last_idx == Len(fragments) - 1
        open_tail == /\ fragments # <<>>
                     /\ normalize_role(fragments[last_idx + 1].ego, last_idx = 0) = "assistant"
                     /\ fragments[last_idx + 1].text = <<>>
        suffix == IM_START \o RoleChars("assistant")
    IN  IF open_tail
        THEN IF blocks # <<>> THEN JoinLines(Append(blocks, suffix)) ELSE suffix
        ELSE JoinLines(blocks)

\* The ego named by the characters of a role; a name that is none of the
\* model's roles is kept apart from None.
EgoOfChars(chars) ==
    IF \E r \in {"system", "user", "assistant", "tool"} : RoleChars(r) = chars
    THEN CHOOSE r \in {"system", "user", "assistant", "tool"} : RoleChars(r) = chars
    ELSE "other"

NoMatch == [ok |-> FALSE]

\* A match of the pattern of from_text that starts at position i (1-based):
\* the role runs to the first newline and is not empty, the content is the
\* shortest text followed by a newline and <|im_end|>.  The model's alphabet
\* has no carriage return.
BlockMatchAt(text, i) ==
    IF ~MatchAt(text, i, IM_START) THEN NoMatch
    ELSE LET r0 == i + Len(IM_START)
             nls == {k \in r0..Len(text) : text[k] = NL}
         IN  IF nls = {} \/ MinOf(nls \cup {Len(text) + 1}) = r0 THEN NoMatch
             ELSE LET nl == MinOf(nls)
                      ends == {e \in (nl + 1)..Len(text) :
                                  text[e] = NL /\ MatchAt(text, e + 1, IM_END)}
                  IN  IF ends = {} THEN NoMatch
                      ELSE [ok |-> TRUE,
                            role |-> SubSeq(text, r0, nl - 1),
                            content |-> SubSeq(text, nl + 1, MinOf(ends) - 1),
                            stop |-> MinOf(ends) + 1 + Len(IM_END)]

\* pattern.finditer(text) from position p on: the leftmost matches, none
\* overlapping another; each gives {"role": role.strip(), "content": content}
RECURSIVE from_text_msgs(_, _)
from_text_msgs(text, p) ==
    LET starts == {i \in p..Len(text) : BlockMatchAt(text, i).ok}
    IN  IF starts = {} THEN <<>>
        ELSE LET mt == BlockMatchAt(text, MinOf(starts))
             IN  <<Message(Strip(mt.role), mt.content)>> \o from_text_msgs(text, mt.stop)

\* Context.from_api_chat with AutoMask.FREEZE_ALL: one fragment per message
RECURSIVE from_api_chat(_)
from_api_chat(api_context) ==
    IF api_context = <<>> THEN <<>>
    ELSE LET msg == api_context[Len(api_context)]
         IN  Context_add_frag(from_api_chat(SubSeq(api_context, 1, Len(api_context) - 1)),
                              EgoOfChars(msg.role), msg.content, FROZEN)

\* Context.from_text: ValueError when the text holds no delimited message
from_text(text) ==
    LET msgs == from_text_msgs(text, 1)
    IN  IF msgs = <<>> THEN [raised |-> TRUE, fragments |-> <<>>]
        ELSE [raised |-> FALSE, fragments |-> from_api_chat(msgs)]

\* str.lower(), among the model's alphabet
Lower(s) == [i \in 1..Len(s) |-> IF s[i] = "F" THEN "f" ELSE s[i]]

\* The matches of <t>\s*(.*?)\s*(?:</t>|$) (DOTALL) in content from position
\* p on, leftmost first and none overlapping another, each as its group 1
\* stripped: a match runs from <t> to the first </t> after it, or to the end
\* of the content when none follows.
RECURSIVE xml_matches(_, _, _)
xml_matches(content, t, p) ==
    LET open == <<"<">> \o t \o <<">">>
        close == <<"<", "/">> \o t \o <<">">>
        starts == {i \in p..Len(content) : MatchAt(content, i, open)}
    IN  IF starts = {} THEN <<>>
        ELSE LET b == MinOf(starts) + Len(open)
                 closes == {e \in b..Len(content) : MatchAt(content, e, close)}
             IN  IF closes = {} THEN <<Strip(SubSeq(content, b, Len(content)))>>
                 ELSE <<Strip(SubSeq(content, b, MinOf(closes) - 1))>>
                      \o xml_matches(content, t, MinOf(closes) + Len(close))

\* Variant of the loop of extract_xml_tag: the search ends at the latest
\* message of the role, with or without a match.
RECURSIVE extract_xml_tag_latest_only(_, _, _, _)
extract_xml_tag_latest_only(messages, n, tag, role) ==
    IF n = 0 THEN NoneVal
    ELSE LET msg == messages[n]
         IN  IF tag = <<>>
             THEN IF role = NoRole \/ msg.role = role THEN Strip(msg.content)
                  ELSE extract_xml_tag_latest_only(messages, n - 1, tag, role)
             ELSE IF role # NoRole /\ msg.role # role
             THEN extract_xml_tag_latest_only(messages, n - 1, tag, role)
             ELSE LET matches == xml_matches(msg.content, Lower(tag), 1)
                  IN  IF matches # <<>> THEN matches[Len(matches)] ELSE NoneVal

\* The loops of extract_xml_tag over reversed(messages), from message n down;
\* role None is NoRole.
RECURSIVE extract_xml_tag_from(_, _, _, _)
extract_xml_tag_from(messages, n, tag, role) ==
    IF n = 0 THEN NoneVal
    ELSE LET msg == messages[n]
         IN  IF tag = <<>>
             THEN IF role = NoRole \/ msg.role = role THEN Strip(msg.content)
                  ELSE extract_xml_tag_from(messages, n - 1, tag, role)
             ELSE IF role # NoRole /\ msg.role # role
             THEN extract_xml_tag_from(messages, n - 1, tag, role)
             ELSE LET matches == xml_matches(msg.content, Lower(tag), 1)
                  IN  IF matches # <<>> THEN matches[Len(matches)]
                      ELSE extract_xml_tag_from(messages, n - 1, tag, role)

\* Context.extract_xml_tag
extract_xml_tag(fragments, tag, role) ==
    LET messages == to_api_messages(fragments, FALSE)
    IN  extract_xml_tag_from(messages, Len(messages), tag, role)

\* ------------------------------------------------------------ the phore
\* The state of one evaluation, as a record the handlers transform:
\*   env, span_bindings, span_fragments, holowares (_holowares),
\*   span (_span), ego (_ego), errors      Holophore's fields
\*   contexts                              the rollout's contexts
\*   calls                                 history: the hook invocations
\*   raised                                the exception propagating, or ""

\* The template the path leads to: <<>> is the evaluated template, and
\* path \o <<k>> the body of span k (1-based) of the template at path.
RECURSIVE SpansAt(_, _)
SpansAt(w, path) ==
    IF path = <<>> THEN w.spans ELSE SpansAt(w.spans[Head(path)].body, Tail(path))

NoSpan == [path |-> <<>>, k |-> 0]

\* Holophore.get_class
get_class(ph, classname) ==
    IF classname \in DOMAIN ph.env /\ EnvTruthy(ph.env[classname])
    THEN ph.env[classname].val
    ELSE discovery_get_class(classname)

\* isinstance(Cls, type), for the Cls that get_class(classname) returns: a
\* value of env that is not a class (a string) is no type; what the
\* registry returns is a class.
isinstance_type(ph, classname) ==
    (classname \in DOMAIN ph.env /\ EnvTruthy(ph.env[classname]))
        => ph.env[classname].isClass

\* Holophore.find_span: whether some template on the stack has a span with uid
find_span(w, ph, uid) ==
    \E n \in 1..Len(ph.holowares) :
        \E k \in 1..Len(SpansAt(w, ph.holowares[n])) :
            SpansAt(w, ph.holowares[n])[k].uuid = uid

\* Holophore.add_frag
add_frag(w, ph, type, text) ==
    LET ctxs == Rollout_add_frag(ph.contexts, ph.ego, type, text)
        ref  == <<Len(ctxs), Len(ctxs[Len(ctxs)])>>
        uid  == SpansAt(w, ph.span.path)[ph.span.k].uuid
    IN  IF ph.span = NoSpan THEN [ph EXCEPT !.contexts = ctxs]
        ELSE [ph EXCEPT !.contexts = ctxs,
                        !.span_fragments =
                            IF uid \in DOMAIN @ THEN [@ EXCEPT ![uid] = Append(@, ref)]
                            ELSE @ @@ (uid :> <<ref>>)]

\* Variant of Holophore.add_masked: the fragment takes the REINFORCE type.
add_masked_as_reinforced(w, ph, content) == add_frag(w, ph, REINFORCE, content)

\* Holophore.add_masked
add_masked(w, ph, content) == add_frag(w, ph, FROZEN, content)

\* Holophore.add_reinforced
add_reinforced(w, ph, content) == add_frag(w, ph, REINFORCE, content)

\* dict assignment span_bindings[uid] = obj: a new key goes last, an
\* existing key keeps its place.
bind(bindings, uid, obj) ==
    IF \E n \in 1..Len(bindings) : bindings[n].uid = uid
    THEN [n \in 1..Len(bindings) |->
             IF bindings[n].uid = uid THEN [uid |-> uid, obj |-> obj] ELSE bindings[n]]
    ELSE Append(bindings, [uid |-> uid, obj |-> obj])

\* no bound object
Unbound == [cls |-> NoneVal, instance |-> FALSE]

\* the object bound to uid in span_bindings, Unbound when there is none
binding(ph, uid) ==
    LET at == {n \in 1..Len(ph.span_bindings) : ph.span_bindings[n].uid = uid}
    IN  IF at = {} THEN Unbound ELSE ph.span_bindings[MinOf(at)].obj

\* The hook invocation is recorded, with its receiver: Holophore.invoke
\* passes the object bound to the span as the first argument.
called(ph, uid, hook) ==
    [ph EXCEPT !.calls = Append(@, [uid |-> uid, hook |-> hook, recv |-> binding(ph, uid)])]

\* ------------------------------------------------------------ evaluation

\* Variant of phase 1 for one ClassSpan: _is_holostatic is not looked at.
instantiate_holostatic_too(ph, span) ==
    LET Cls == get_class(ph, span.class_name)
        def == ClassDefs[Cls]
        inst == [cls |-> Cls, instance |-> TRUE]
        ph1 == called([ph EXCEPT !.span_bindings = bind(@, span.uuid, inst)],
                      span.uuid, "__init__")
        ph2 == called(ph1, span.uuid, "__holo_init__")
    IN  IF Cls = NoneVal THEN [ph EXCEPT !.raised = "ClassNotFound"]
        ELSE IF ~isinstance_type(ph, span.class_name)
        THEN [ph EXCEPT !.raised = "TypeError"]
        ELSE IF ~def.has_holo_init THEN ph1
        ELSE IF def.init_returns = NoneVal THEN ph2
        ELSE [ph2 EXCEPT !.span_bindings =
                  bind(@, span.uuid, [cls |-> def.init_returns, instance |-> TRUE])]

\* Holoware.__call__, phase 1 (start), for one ClassSpan.  A value of env
\* that is not a class has no _is_holostatic, and invoke(Cls, "__init__")
\* raises TypeError on it before anything is bound or called.
instantiate(ph, span) ==
    LET Cls == get_class(ph, span.class_name)
        def == ClassDefs[Cls]
        inst == [cls |-> Cls, instance |-> TRUE]
        ph1 == called([ph EXCEPT !.span_bindings = bind(@, span.uuid, inst)],
                      span.uuid, "__init__")
        ph2 == called(ph1, span.uuid, "__holo_init__")
    IN  IF Cls = NoneVal THEN [ph EXCEPT !.raised = "ClassNotFound"]
        ELSE IF ~isinstance_type(ph, span.class_name)
        THEN [ph EXCEPT !.raised = "TypeError"]
        ELSE IF def.holostatic
        THEN [ph EXCEPT !.span_bindings = bind(@, span.uuid, [cls |-> Cls, instance |-> FALSE])]
        ELSE IF ~def.has_holo_init THEN ph1
        ELSE IF def.init_returns = NoneVal THEN ph2
        ELSE [ph2 EXCEPT !.span_bindings =
                  bind(@, span.uuid, [cls |-> def.init_returns, instance |-> TRUE])]

\* Holoware.__call__, phase 1 (start): every ClassSpan of the template, in order
RECURSIVE phase_start(_, _, _)
phase_start(ph, spans, k) ==
    IF k > Len(spans) \/ ph.raised # "" THEN ph
    ELSE phase_start(IF spans[k].kind = "ClassSpan" THEN instantiate(ph, spans[k]) ELSE ph,
                     spans, k + 1)

\* Variant of the start of Holoware.__call__: no class is looked up nor
\* instantiated before the main loop.
call_enter_without_phase_1(w, ph, path) == [ph EXCEPT !.holowares = Append(@, path)]

\* Holoware.__call__ up to the main loop: __holo_start__ (a Holoware defines
\* none), the template is pushed on _holowares, then phase 1.
call_enter(w, ph, path) ==
    phase_start([ph EXCEPT !.holowares = Append(@, path)], SpansAt(w, path), 1)

\* hasattr(target, hook), for a bound object or class
hasattr(obj, hook) ==
    CASE hook = "__holo__"     -> ClassDefs[obj.cls].has_holo
      [] hook = "__holo_end__" -> ClassDefs[obj.cls].has_holo_end
      [] hook = "__holo_init__" -> ClassDefs[obj.cls].has_holo_init

\* Holoware.__call__, phase 3 (end), the loop over span_bindings
RECURSIVE phase_end_bindings(_, _, _)
phase_end_bindings(w, ph, n) ==
    IF n > Len(ph.span_bindings) \/ ph.raised # "" THEN ph
    ELSE LET b == ph.span_bindings[n]
         IN  phase_end_bindings(w,
                 IF ~hasattr(b.obj, "__holo_end__") THEN ph
                 ELSE IF ~find_span(w, ph, b.uid) THEN [ph EXCEPT !.raised = "ValueError"]
                 ELSE called(ph, b.uid, "__holo_end__"),
                 n + 1)

\* Holoware.__call__, phase 3 (end), the loop over span_fragments
phase_end_fragments(w, ph) ==
    IF ph.raised = "" /\ \E uid \in DOMAIN ph.span_fragments : ~find_span(w, ph, uid)
    THEN [ph EXCEPT !.raised = "ValueError"]
    ELSE ph

\* list.remove(x): the first element equal to x is removed
list_remove(l, x) ==
    LET at == {n \in 1..Len(l) : l[n] = x}
    IN  IF at = {} THEN l
        ELSE SubSeq(l, 1, MinOf(at) - 1) \o SubSeq(l, MinOf(at) + 1, Len(l))

\* Holoware.__call__ after the main loop: _span is cleared, the errors are
\* checked, phase 3 runs and the template is removed from _holowares.
call_exit(w, ph, path) ==
    LET ph1 == [ph EXCEPT !.span = NoSpan]
        ph2 == phase_end_fragments(w, phase_end_bindings(w, ph1, 1))
    IN  IF ph1.errors > 0 THEN [ph1 EXCEPT !.raised = "EvaluationFailed"]
        ELSE IF ph2.raised # "" THEN ph2
        ELSE [ph2 EXCEPT !.holowares = list_remove(@, path)]

\* ------------------------------------------------------------ span handlers

OpenTag(fence) == <<"<">> \o fence \o <<">">>

CloseTag(fence) == <<"<", "/">> \o fence \o <<">">>

ObjTag(var_id) == <<"<", "o", "b", "j", " ", "i", "d", "=">> \o var_id \o <<">">>

\* SpanHandler.TextSpan
SpanHandler_TextSpan(w, ph, span) == add_masked(w, ph, span.text)

\* Variant of the loop: the value is emitted before the opening tag.
RECURSIVE SpanHandler_ObjSpan_from_value_first(_, _, _, _)
SpanHandler_ObjSpan_from_value_first(w, ph, var_ids, k) ==
    IF k > Len(var_ids) THEN ph
    ELSE LET var_id == var_ids[k]
             a == add_masked(w, ph, StrOf(ph.env[var_id]))
             b == add_masked(w, a, ObjTag(var_id))
             c == add_masked(w, b, <<"<", "/", "o", "b", "j", ">">>)
             d == add_masked(w, c, <<NL>>)
         IN  SpanHandler_ObjSpan_from_value_first(w, IF var_id \in DOMAIN ph.env THEN d ELSE ph,
                                                  var_ids, k + 1)

\* SpanHandler.ObjSpan: the loop over var_ids, from index k on
RECURSIVE SpanHandler_ObjSpan_from(_, _, _, _)
SpanHandler_ObjSpan_from(w, ph, var_ids, k) ==
    IF k > Len(var_ids) THEN ph
    ELSE LET var_id == var_ids[k]
             a == add_masked(w, ph, ObjTag(var_id))
             b == add_masked(w, a, StrOf(ph.env[var_id]))
             c == add_masked(w, b, <<"<", "/", "o", "b", "j", ">">>)
             d == add_masked(w, c, <<NL>>)
         IN  SpanHandler_ObjSpan_from(w, IF var_id \in DOMAIN ph.env THEN d ELSE ph,
                                      var_ids, k + 1)

\* SpanHandler.ObjSpan
SpanHandler_ObjSpan(w, ph, span) == SpanHandler_ObjSpan_from(w, ph, span.var_ids, 1)

\* Variant of the payload: the raw sample, fences kept.
SamplePayload_raw(sample, fence) == sample

\* SpanHandler.SampleSpan, the payload bound to env[span.id]
SamplePayload(sample, fence) ==
    LET open_tag == OpenTag(fence)
        close_tag == CloseTag(fence)
        cut_close == IF EndsWith(sample, close_tag)
                     THEN SubSeq(sample, 1, Len(sample) - Len(close_tag)) ELSE sample
        cut_open == IF StartsWith(cut_close, open_tag)
                    THEN SubSeq(cut_close, Len(open_tag) + 1, Len(cut_close)) ELSE cut_close
    IN  IF fence = <<>> THEN sample
        ELSE IF StartsWith(sample, open_tag) /\ EndsWith(sample, close_tag)
        THEN SubSeq(sample, Len(open_tag) + 1, Len(sample) - Len(close_tag))
        ELSE cut_open

\* SpanHandler.SampleSpan, the text that is reinforced
SampleText(sample, fence) ==
    IF fence # <<>> /\ ~EndsWith(sample, CloseTag(fence))
    THEN sample \o CloseTag(fence)
    ELSE sample

\* Variant of SpanHandler.SampleSpan: a key env already holds is not overwritten.
SpanHandler_SampleSpan_first_write(w, ph, span, sample) ==
    LET b == add_reinforced(w, ph, SampleText(sample, span.fence))
        payload == EnvStr(Strip(SamplePayload(sample, span.fence)))
    IN  IF ~Truthy(sample) THEN ph
        ELSE IF span.id = <<>> \/ span.id \in DOMAIN b.env THEN b
        ELSE [b EXCEPT !.env = @ @@ (span.id :> payload)]

\* Variant of SpanHandler.SampleSpan: the payload is bound to env[span.id]
\* whatever the sampler returned.
SpanHandler_SampleSpan_always_binds(w, ph, span, sample) ==
    LET b == IF Truthy(sample) THEN add_reinforced(w, ph, SampleText(sample, span.fence))
             ELSE ph
        payload == IF Truthy(sample) THEN EnvStr(Strip(SamplePayload(sample, span.fence)))
                   ELSE EnvStr(<<>>)
    IN  IF span.id = <<>> THEN b
        ELSE [b EXCEPT !.env = IF span.id \in DOMAIN @ THEN [@ EXCEPT ![span.id] = payload]
                                ELSE @ @@ (span.id :> payload)]

\* SpanHandler.SampleSpan up to the call of holophore.sample(): the opening
\* tag of the fence is written
SpanHandler_SampleSpan_opening(w, ph, span) ==
    IF span.fence # <<>> THEN add_masked(w, ph, OpenTag(span.fence)) ELSE ph

\* SpanHandler.SampleSpan from the return of holophore.sample() on; sample
\* is what it returned, ph holds the opening tag
SpanHandler_SampleSpan(w, ph, span, sample) ==
    LET b == add_reinforced(w, ph, SampleText(sample, span.fence))
        payload == EnvStr(Strip(SamplePayload(sample, span.fence)))
    IN  IF ~Truthy(sample) THEN ph
        ELSE IF span.id = <<>> THEN b
        ELSE [b EXCEPT !.env = IF span.id \in DOMAIN @ THEN [@ EXCEPT ![span.id] = payload]
                                ELSE @ @@ (span.id :> payload)]

\* Variant of SpanHandler.ContextResetSpan: the role is left as it was.
SpanHandler_ContextResetSpan_keeps_ego(w, ph, span) ==
    [ph EXCEPT !.contexts = Rollout_new_context(@)]

\* SpanHandler.ContextResetSpan
SpanHandler_ContextResetSpan(w, ph, span) ==
    [ph EXCEPT !.contexts = Rollout_new_context(@), !.ego = "system"]

\* SpanHandler.EgoSpan
SpanHandler_EgoSpan(w, ph, span) == [ph EXCEPT !.ego = span.ego]

\* Holophore.invoke__holo__
invoke__holo__(ph, span) ==
    LET result == ClassDefs[binding(ph, span.uuid).cls].holo_returns
    IN  IF result = NoneVal THEN <<>> ELSE result

\* Variant of the __holo__ branch: the insertion is appended even when empty.
SpanHandler_ClassSpan_holo_always_appends(w, ph, span) ==
    add_masked(w, called(ph, span.uuid, "__holo__"), invoke__holo__(ph, span))

\* SpanHandler.ClassSpan, when the bound object has __holo__
SpanHandler_ClassSpan_holo(w, ph, span) ==
    LET insertion == invoke__holo__(ph, span)
        ph1 == called(ph, span.uuid, "__holo__")
    IN  IF insertion # <<>> THEN add_masked(w, ph1, insertion) ELSE ph1

\* ---------------------------------------------------- whitespace optimization

\* re.search of <(\w+)[^>]*>.*?</\1> (DOTALL) in s
TagBlockSearch(s) ==
    \E i \in 1..Len(s) :
        /\ s[i] = "<"
        /\ \E k \in (i + 1)..Len(s) :
              /\ \A m \in (i + 1)..k : IsWord(s[m])
              /\ \E g \in (k + 1)..Len(s) :
                    /\ s[g] = ">"
                    /\ \A m \in (k + 1)..(g - 1) : s[m] # ">"
                    /\ \E p \in (g + 1)..Len(s) :
                          MatchAt(s, p, <<"<", "/">> \o SubSeq(s, i + 1, k) \o <<">">>)

\* re.search of <obj\s+id=.*?> (DOTALL) in s
ObjTagSearch(s) ==
    \E i \in 1..Len(s) :
        /\ MatchAt(s, i, <<"<", "o", "b", "j">>)
        /\ \E j \in (i + 5)..Len(s) :
              /\ \A m \in (i + 4)..(j - 1) : IsSpace(s[m])
              /\ MatchAt(s, j, <<"i", "d", "=">>)
              /\ \E g \in (j + 3)..Len(s) : s[g] = ">"

\* tag_pattern.search(s)
tag_pattern_search(s) == TagBlockSearch(s) \/ ObjTagSearch(s)

Newlines(n) == [k \in 1..n |-> NL]

\* count_tail(s) of optimize_block
count_tail(s) == Len(s) - Len(RStripChar(s, NL))

\* count_head(s) of optimize_block: written with rstrip, as count_tail is
count_head(s) == Len(s) - Len(RStripChar(s, NL))

\* span_fragments.get(uuid, FragList.EMPTY)
fragments_of(ph, uid) ==
    IF uid \in DOMAIN ph.span_fragments THEN ph.span_fragments[uid] ELSE <<>>

\* optimize_block(i) of Holoware.__call__; i is the 0-based span index
optimize_block(ph, spans, i) ==
    IF i < 2 THEN ph
    ELSE LET f1 == fragments_of(ph, spans[i - 1].uuid)
             f2 == fragments_of(ph, spans[i].uuid)
             f3 == fragments_of(ph, spans[i + 1].uuid)
             s1 == Strip(FragList_string(ph.contexts, f1))
             s2 == Strip(FragList_string(ph.contexts, f2))
             s3 == Strip(FragList_string(ph.contexts, f3))
             lc == count_tail(s1) + count_head(s2)
             rc == count_tail(s2) + count_head(s3)
             first == f2[1]
             last == f2[Len(f2)]
             c1 == [ph.contexts EXCEPT ![first[1]][first[2]].text = Newlines(3 - lc) \o @]
             c2 == [c1 EXCEPT ![last[1]][last[2]].text = @ \o Newlines(3 - rc)]
         IN  IF tag_pattern_search(s2) THEN [ph EXCEPT !.contexts = c2] ELSE ph

\* ------------------------------------------------------------------ inputs

VarX == <<"x">>

VarY == <<"y">>

FenceF == <<"f">>

\* the source items
Text_t == TextItem(<<"t">>)

\* the text of a think block that holds one space
Text_think == TextItem(OpenTag(<<"t", "h", "i", "n", "k">>) \o <<" ">>
                       \o CloseTag(<<"t", "h", "i", "n", "k">>))

Ego_user == TagItem("ego", <<"o", "_", "o">>, <<>>, <<>>)

Reset_train == TagItem("reset", <<"+", "+", "+">>, <<>>, <<>>)

Reset_plain == TagItem("reset", <<"=", "=", "=">>, <<>>, <<>>)

Obj_xy == TagItem("obj", <<VarX, VarY>>, <<>>, <<>>)

Sampler_x == TagItem("ego", <<"@", "_", "@">>, VarX, FenceF)

Sampler_anon == TagItem("ego", <<"@", "_", "@">>, <<>>, FenceF)

Class(name) == TagItem("class", name, <<>>, <<>>)

\* The indented bodies given to class tags.
Bodies == { <<TextItem(<<"b">>)>>, <<Sampler_anon>>, <<Ego_user, Class(<<"H">>)>> }

\* The items of the sources that exercise text, roles, resets, object
\* injection and sampling.
DataItems ==
    { Text_t, Ego_user, Reset_train, Obj_xy, Sampler_x, Class(<<"H">>) }

\* The items of the sources that exercise samplers without an id, whose
\* spans share their (empty) identifier with the id-less role tags.
AnonItems == { Text_t, Ego_user, Sampler_anon }

\* The items of the sources that exercise training and non-training resets.
ResetItems == { Text_t, Ego_user, Reset_train, Reset_plain }

\* The items of the sources that exercise the bound-object classes.
ClassItems ==
    { Ego_user, Class(<<"H">>), Class(<<"P">>), Class(<<"S">>), Class(<<"B">>), Class(<<"M">>),
      BodyItem(<<"H">>, <<TextItem(<<"b">>)>>) }
    \cup { BodyItem(<<"B">>, b) : b \in Bodies }

\* The template of test_data_assignment_across_contexts: a sample bound to
\* x in the first context, injected in the second.
AcrossContexts ==
    <<Reset_train, Ego_user, Text_t, Sampler_x, Reset_train, Ego_user, Text_t, Obj_xy>>

\* a template whose text is an empty think block
EmptyThink == <<Ego_user, Text_think>>

Sources ==
    UNION { [1..n -> DataItems] \cup [1..n -> ClassItems] \cup [1..n -> AnonItems]
            \cup [1..n -> ResetItems] : n \in 1..MaxTags }
    \cup { AcrossContexts, EmptyThink }

\* The templates evaluated: every source the parser accepts, parsed.
Templates == { Holoware(p.spans) : p \in {q \in {parse(src) : src \in Sources} : ~q.failed} }

\* The env maps an evaluation starts from (the rollout's row): the class
\* the tests put in env, without data, with a value for y, or with values
\* for x and y; and an env that holds a string under the name of the class.
Rows ==
    { (<<"H">> :> EnvClass(<<"H">>)),
      (<<"H">> :> EnvStr(<<"B">>)),
      (<<"H">> :> EnvClass(<<"H">>)) @@ (VarY :> EnvStr(<<"w">>)),
      (<<"H">> :> EnvClass(<<"H">>)) @@ (VarX :> EnvStr(<<"v">>)) @@ (VarY :> EnvStr(<<"w">>)) }

\* What the external sampler may return.
SampleOutputs ==
    { NoneVal, <<>>, <<"s">>,
      <<" ", "s">> \o CloseTag(FenceF),
      OpenTag(FenceF) \o <<"s", " ">> \o CloseTag(FenceF),
      OpenTag(FenceF) \o <<"s", NL>> }

\* ------------------------------------------------------------------- state

VARIABLES
    ware,            \* the template being evaluated
    row,             \* the env the phore was constructed with
    env,             \* Holophore.env
    contexts,        \* Rollout.contexts, each the fragment list of a Context
    span_bindings,   \* Holophore.span_bindings, in insertion order
    span_fragments,  \* Holophore.span_fragments: uuid -> references to fragments
    holowares,       \* Holophore._holowares: the paths of the templates on the stack
    span,            \* Holophore._span
    ego,             \* Holophore._ego
    errors,          \* Holophore.errors
    stack,           \* the active Holoware.__call__ frames: template path, span index
    pc,              \* "idle", "running", "sampling", "returned" or "raised"
    exc,             \* the exception raised out of the evaluation, or ""
    calls,           \* history: the hook invocations, in order
    journal,         \* history: the spans dispatched, in order
    peer,            \* the other evaluation of the same template, while it waits
    solo,            \* history: the evaluation that ran alone before the two
    rendered,        \* the last result of Context.to_api_messages
    parser           \* a HolowareParser at work on a source, or NoParser

vars == <<ware, row, env, contexts, span_bindings, span_fragments, holowares, span, ego,
          errors, stack, pc, exc, calls, journal, peer, solo, rendered, parser>>

\* no evaluation
NoPhore == [present |-> FALSE]

\* no parser
NoParser == [present |-> FALSE]

\* to_api_messages has not been called
NotRendered == [present |-> FALSE]

\* Holophore.__init__, on an empty rollout
Init ==
    /\ peer = NoPhore
    /\ solo = NoPhore
    /\ rendered = NotRendered
    /\ parser = NoParser
    /\ ware \in Templates
    /\ row \in Rows
    /\ env = row
    /\ contexts = <<>>
    /\ span_bindings = <<>>
    /\ span_fragments = <<>>
    /\ holowares = <<>>
    /\ span = NoSpan
    /\ ego = "system"
    /\ errors = 0
    /\ stack = <<>>
    /\ pc = "idle"
    /\ exc = ""
    /\ calls = <<>>
    /\ journal = <<>>

\* the phore as the record the handlers transform
Ph == [env |-> env, contexts |-> contexts, span_bindings |-> span_bindings,
       span_fragments |-> span_fragments, holowares |-> holowares, span |-> span,
       ego |-> ego, errors |-> errors, calls |-> calls, raised |-> ""]

SetPh(r) ==
    /\ env' = r.env
    /\ contexts' = r.contexts
    /\ span_bindings' = r.span_bindings
    /\ span_fragments' = r.span_fragments
    /\ holowares' = r.holowares
    /\ span' = r.span
    /\ ego' = r.ego
    /\ errors' = r.errors
    /\ calls' = r.calls

\* an exception leaves Holoware.__call__ and every enclosing call
Raise(r) ==
    /\ SetPh(r)
    /\ pc' = "raised"
    /\ exc' = r.raised
    /\ stack' = <<>>

Top == stack[Len(stack)]

TopSpans == SpansAt(ware, Top.path)

\* the span the main loop of the innermost call is at
Current == TopSpans[Top.i + 1]

AtSpan(kind) ==
    /\ pc = "running"
    /\ Top.i < Len(TopSpans)
    /\ Current.kind = kind

\* the references to the fragments that are in ctxs2 and not in ctxs1
NewRefs(ctxs1, ctxs2) ==
    UNION { { <<c, k>> : k \in { n \in 1..Len(ctxs2[c]) :
                                    c > Len(ctxs1) \/ n > Len(ctxs1[c]) } } :
            c \in 1..Len(ctxs2) }

\* the fragments the active context of ctxs2 has and ctxs1 has not, in order
Emitted(ctxs1, ctxs2) ==
    LET c == Len(ctxs2)
        from == IF c > Len(ctxs1) THEN 0 ELSE Len(ctxs1[c])
    IN  IF c = 0 THEN <<>> ELSE SubSeq(ctxs2[c], from + 1, Len(ctxs2[c]))

\* The dispatch of the current span is recorded: the span, what the sampler
\* returned (NoneVal when it was not asked), the fragments the handler
\* appended, as references (frags) and as appended (out), and the number of
\* contexts the rollout has when the handler returns (ctx).
\* The handler appended the fragments out (references refs) in an earlier
\* step, and since then what r.contexts has and contexts has not.
JournalAfter(refs, out, r, sample) ==
    journal' = Append(journal, [path |-> Top.path, k |-> Top.i + 1, sample |-> sample,
                                frags |-> refs \cup NewRefs(contexts, r.contexts),
                                out |-> out \o Emitted(contexts, r.contexts),
                                ctx |-> Len(r.contexts)])

Journal(r, sample) == JournalAfter({}, <<>>, r, sample)

\* the end of one iteration of the main loop: optimize_block(i - 1), next span
EndIteration(r, sample) ==
    /\ SetPh(optimize_block(r, TopSpans, Top.i - 1))
    /\ stack' = [stack EXCEPT ![Len(stack)].i = @ + 1]
    /\ Journal(r, sample)
    /\ UNCHANGED <<ware, row, pc, exc, peer, solo, rendered, parser>>

Entered == [Ph EXCEPT !.span = [path |-> Top.path, k |-> Top.i + 1]]

\* Holoware.__call__ is entered on the template: phase 1
Call ==
    /\ pc = "idle"
    /\ LET r == call_enter(ware, Ph, <<>>)
       IN  IF r.raised # "" THEN Raise(r)
           ELSE /\ SetPh(r)
                /\ stack' = <<[path |-> <<>>, i |-> 0]>>
                /\ pc' = "running"
                /\ exc' = ""
    /\ UNCHANGED <<ware, row, journal, peer, solo, rendered, parser>>

TextSpanStep ==
    /\ AtSpan("TextSpan")
    /\ EndIteration(SpanHandler_TextSpan(ware, Entered, Current), NoneVal)

ObjSpanStep ==
    /\ AtSpan("ObjSpan")
    /\ EndIteration(SpanHandler_ObjSpan(ware, Entered, Current), NoneVal)

\* SpanHandler.SampleSpan is entered: the opening tag is written and the
\* external sampler is called
SampleSpanStep ==
    /\ AtSpan("SampleSpan")
    /\ SetPh(SpanHandler_SampleSpan_opening(ware, Entered, Current))
    /\ pc' = "sampling"
    /\ UNCHANGED <<ware, row, stack, exc, journal, peer, solo, rendered, parser>>

\* holophore.sample() returns and the handler goes on with what it
\* returned; the iteration of the main loop ends
SampleReturn ==
    /\ pc = "sampling"
    /\ \E sample \in SampleOutputs :
          LET r == SpanHandler_SampleSpan(ware, Ph, Current, sample)
              c == Len(contexts)
              fenced == Current.fence # <<>>
              \* the opening tag, the last fragment of the active context
              opening == IF fenced THEN <<contexts[c][Len(contexts[c])]>> ELSE <<>>
              at == IF fenced THEN {<<c, Len(contexts[c])>>} ELSE {}
          IN  /\ SetPh(optimize_block(r, TopSpans, Top.i - 1))
              /\ JournalAfter(at, opening, r, sample)
    /\ stack' = [stack EXCEPT ![Len(stack)].i = @ + 1]
    /\ pc' = "running"
    /\ UNCHANGED <<ware, row, exc, peer, solo, rendered, parser>>

\* holophore.sample() raises: the exception leaves the handler and
\* Holoware.__call__
SampleRaise ==
    /\ pc = "sampling"
    /\ Raise([Ph EXCEPT !.raised = "SamplerError"])
    /\ UNCHANGED <<ware, row, journal, peer, solo, rendered, parser>>

ContextResetSpanStep ==
    /\ AtSpan("ContextResetSpan")
    /\ EndIteration(SpanHandler_ContextResetSpan(ware, Entered, Current), NoneVal)

EgoSpanStep ==
    /\ AtSpan("EgoSpan")
    /\ EndIteration(SpanHandler_EgoSpan(ware, Entered, Current), NoneVal)

\* SpanHandler.ClassSpan: __holo__ of the bound object, or else the body is
\* called as a template on the same phore, or else the span fails
ClassSpanStep ==
    /\ AtSpan("ClassSpan")
    /\ LET bound == binding(Entered, Current.uuid)
           inner == call_enter(ware, Entered, Top.path \o <<Top.i + 1>>)
       IN  IF get_class(Entered, Current.class_name) = NoneVal
           THEN Raise([Entered EXCEPT !.raised = "ClassNotFound"]) /\ UNCHANGED journal
           ELSE IF bound = Unbound
           THEN Raise([Entered EXCEPT !.raised = "KeyError"]) /\ UNCHANGED journal
           ELSE IF hasattr(bound, "__holo__")
           THEN EndIteration(SpanHandler_ClassSpan_holo(ware, Entered, Current), NoneVal)
           ELSE IF ~Current.body.present
           THEN Raise([Entered EXCEPT !.raised = "EmptyClassSpan"]) /\ UNCHANGED journal
           ELSE IF inner.raised # ""
           THEN Raise(inner) /\ UNCHANGED journal
           ELSE /\ SetPh(inner)
                /\ stack' = Append(stack, [path |-> Top.path \o <<Top.i + 1>>, i |-> 0])
                /\ Journal(Entered, NoneVal)
                /\ UNCHANGED <<pc, exc>>
    /\ UNCHANGED <<ware, row, peer, solo, rendered, parser>>

\* The main loop of the innermost call is over: phase 3, and the call
\* returns; a body's call returns into SpanHandler.ClassSpan, and the
\* iteration of the enclosing main loop ends.
Return ==
    /\ pc = "running"
    /\ Top.i = Len(TopSpans)
    /\ LET r == call_exit(ware, Ph, Top.path)
           outer == stack[Len(stack) - 1]
       IN  IF r.raised # "" THEN Raise(r)
           ELSE IF Len(stack) = 1
           THEN /\ SetPh(r)
                /\ stack' = <<>>
                /\ pc' = "returned"
                /\ exc' = ""
           ELSE /\ SetPh(optimize_block(r, SpansAt(ware, outer.path), outer.i - 1))
                /\ stack' = [SubSeq(stack, 1, Len(stack) - 1) EXCEPT ![Len(stack) - 1].i = @ + 1]
                /\ UNCHANGED <<pc, exc>>
    /\ UNCHANGED <<ware, row, journal, peer, solo, rendered, parser>>

Next ==
    \/ Call
    \/ TextSpanStep
    \/ ObjSpanStep
    \/ SampleSpanStep
    \/ SampleReturn
    \/ SampleRaise
    \/ ContextResetSpanStep
    \/ EgoSpanStep
    \/ ClassSpanStep
    \/ Return

Spec == Init /\ [][Next]_vars

\* ------------------------------------------- two evaluations of a template
\* One template object is evaluated on two phores, each with its own rollout
\* and env, by two callers that are switched between span dispatches and
\* while the sampler is awaited (the call of the sampler is the one point a
\* span handler can be suspended at).  The template
\* (ware) is the one object both evaluations hold; everything else the
\* evaluator reads or writes is reached through the phore.  An evaluation
\* that ran alone beforehand is kept in solo, to compare with.

\* Variant of Holophore.__init__: _ego is left as the last evaluation set it.
Holophore_init_inherits_ego(e) ==
    [env |-> e, span_bindings |-> <<>>, span_fragments |-> <<>>, holowares |-> <<>>,
     span |-> NoSpan, ego |-> ego, errors |-> 0]

\* Holophore.__init__
Holophore_init(e) ==
    [env |-> e, span_bindings |-> <<>>, span_fragments |-> <<>>, holowares |-> <<>>,
     span |-> NoSpan, ego |-> "system", errors |-> 0]

\* a phore on an empty rollout with the row r, not yet called
NewEvaluation(r) ==
    [present |-> TRUE, row |-> r, contexts |-> <<>>, stack |-> <<>>, pc |-> "idle",
     exc |-> "", calls |-> <<>>, journal |-> <<>>] @@ Holophore_init(r)

\* the evaluation the evaluator is running
Active ==
    [present |-> TRUE, row |-> row, env |-> env, contexts |-> contexts,
     span_bindings |-> span_bindings, span_fragments |-> span_fragments,
     holowares |-> holowares, span |-> span, ego |-> ego, errors |-> errors,
     stack |-> stack, pc |-> pc, exc |-> exc, calls |-> calls, journal |-> journal]

Resume(p) ==
    /\ row' = p.row
    /\ env' = p.env
    /\ contexts' = p.contexts
    /\ span_bindings' = p.span_bindings
    /\ span_fragments' = p.span_fragments
    /\ holowares' = p.holowares
    /\ span' = p.span
    /\ ego' = p.ego
    /\ errors' = p.errors
    /\ stack' = p.stack
    /\ pc' = p.pc
    /\ exc' = p.exc
    /\ calls' = p.calls
    /\ journal' = p.journal

\* The templates evaluated twice: text before and after the first role tag,
\* a sample injected by a later object tag, a class with a body, and a
\* class with __holo__ in a context of its own.
PairSources ==
    { <<Text_t, Ego_user, Text_t>>,
      <<Sampler_x, Obj_xy>>,
      <<Ego_user, BodyItem(<<"B">>, <<TextItem(<<"b">>)>>)>>,
      <<Reset_train, Ego_user, Class(<<"H">>)>> }

PairTemplates == { Holoware(parse(src).spans) : src \in PairSources }

InitPair == Init /\ ware \in PairTemplates

\* The evaluation that ran alone is over: two phores are constructed, one
\* with the same row, one with any row, and the same template is evaluated
\* on both.
Fork ==
    /\ ~solo.present
    /\ pc \in {"returned", "raised"}
    /\ solo' = Active @@ [mixed |-> FALSE]
    /\ Resume(NewEvaluation(row))
    /\ \E r \in Rows : peer' = NewEvaluation(r)
    /\ UNCHANGED <<ware, rendered, parser>>

\* Between two span dispatches, or while the sampler is awaited, the other
\* caller runs; solo.mixed records that this happened while both
\* evaluations were in their main loop.
Switch ==
    /\ solo.present
    /\ Resume(peer)
    /\ peer' = Active
    /\ solo' = [solo EXCEPT !.mixed = @ \/ (/\ pc \in {"running", "sampling"}
                                            /\ peer.pc \in {"running", "sampling"})]
    /\ UNCHANGED <<ware, rendered, parser>>

NextPair ==
    \/ Call
    \/ TextSpanStep
    \/ ObjSpanStep
    \/ SampleSpanStep
    \/ SampleReturn
    \/ SampleRaise
    \/ ContextResetSpanStep
    \/ EgoSpanStep
    \/ ClassSpanStep
    \/ Return
    \/ Fork
    \/ Switch

SpecPair == InitPair /\ [][NextPair]_vars

\* ------------------------------------------------- rendering of a context
\* A context is built by Context.add_frag and rendered by to_api_messages.

MaxFrags == 3

\* the egos of the fragments: None, the three API roles, and another name
Egos == {EgoNone, "system", "user", "assistant", "tool"}

\* the texts of the fragments: empty, blank, and padded with blanks
FragTexts == { <<>>, <<" ">>, <<" ", "a", " ">> }

\* a rollout with one empty context, and no template
InitRender ==
    /\ ware = Holoware(<<>>)
    /\ row = <<>>
    /\ env = row
    /\ contexts = <<<<>>>>
    /\ span_bindings = <<>>
    /\ span_fragments = <<>>
    /\ holowares = <<>>
    /\ span = NoSpan
    /\ ego = "system"
    /\ errors = 0
    /\ stack = <<>>
    /\ pc = "idle"
    /\ exc = ""
    /\ calls = <<>>
    /\ journal = <<>>
    /\ peer = NoPhore
    /\ solo = NoPhore
    /\ rendered = NotRendered
    /\ parser = NoParser

\* Context.add_frag
ContextAddFrag ==
    /\ Len(contexts[1]) < MaxFrags
    /\ \E e \in Egos, text \in FragTexts :
          contexts' = <<Context_add_frag(contexts[1], e, text, FROZEN)>>
    /\ rendered' = NotRendered
    /\ UNCHANGED <<ware, row, env, span_bindings, span_fragments, holowares, span, ego,
                   errors, stack, pc, exc, calls, journal, peer, solo, parser>>

\* Context.to_api_messages
ToApiMessages ==
    /\ \E render_dry \in BOOLEAN :
          rendered' = [present |-> TRUE, render_dry |-> render_dry,
                       messages |-> to_api_messages(contexts[1], render_dry)]
    /\ UNCHANGED <<ware, row, env, contexts, span_bindings, span_fragments, holowares,
                   span, ego, errors, stack, pc, exc, calls, journal, peer, solo, parser>>

\* Context.to_api_string
ToApiString ==
    /\ rendered' = [present |-> TRUE, render_dry |-> FALSE,
                    messages |-> to_api_messages(contexts[1], FALSE),
                    string |-> to_api_string(contexts[1])]
    /\ UNCHANGED <<ware, row, env, contexts, span_bindings, span_fragments, holowares,
                   span, ego, errors, stack, pc, exc, calls, journal, peer, solo, parser>>

\* Context.from_text, applied to the string to_api_string returned
FromText ==
    /\ "string" \in DOMAIN rendered
    /\ "parsed" \notin DOMAIN rendered
    /\ rendered' = [present |-> TRUE, render_dry |-> FALSE,
                    messages |-> rendered.messages,
                    string |-> rendered.string,
                    parsed |-> from_text(rendered.string)]
    /\ UNCHANGED <<ware, row, env, contexts, span_bindings, span_fragments, holowares,
                   span, ego, errors, stack, pc, exc, calls, journal, peer, solo, parser>>

NextRender ==
    \/ ContextAddFrag
    \/ ToApiMessages
    \/ ToApiString
    \/ FromText

SpecRender == InitRender /\ [][NextRender]_vars

\* ------------------------------------------------ extraction from a context
\* A context is built by Context.add_frag and searched by extract_xml_tag.

\* the egos of the fragments searched
TagEgos == {"user", "assistant"}

\* the texts of the fragments searched: empty, untagged, a closed tag with
\* padded inner text, an unclosed tag
TagTexts == { <<>>, <<"x">>,
              <<"<", "f", ">", " ", "a", " ", "<", "/", "f", ">">>,
              <<"<", "f", ">", "b">> }

\* the tag names asked for: none, lower case, upper case
TagNames == { <<>>, <<"f">>, <<"F">> }

\* the roles asked for: None, or a role
TagRoles == {NoRole, "user", "assistant"}

\* Context.add_frag, with the texts searched
ContextAddTaggedFrag ==
    /\ Len(contexts[1]) < MaxFrags
    /\ \E e \in TagEgos, text \in TagTexts :
          contexts' = <<Context_add_frag(contexts[1], e, text, FROZEN)>>
    /\ rendered' = NotRendered
    /\ UNCHANGED <<ware, row, env, span_bindings, span_fragments, holowares, span, ego,
                   errors, stack, pc, exc, calls, journal, peer, solo, parser>>

\* Context.extract_xml_tag
ExtractXmlTag ==
    /\ \E tag \in TagNames, role \in TagRoles :
          rendered' = [present |-> TRUE, render_dry |-> FALSE,
                       messages |-> to_api_messages(contexts[1], FALSE),
                       tag |-> tag, role |-> role,
                       extracted |-> extract_xml_tag(contexts[1], tag, role)]
    /\ UNCHANGED <<ware, row, env, contexts, span_bindings, span_fragments, holowares,
                   span, ego, errors, stack, pc, exc, calls, journal, peer, solo, parser>>

NextExtract ==
    \/ ContextAddTaggedFrag
    \/ ExtractXmlTag

SpecExtract == InitRender /\ [][NextExtract]_vars

\* ------------------------------------------------------ parsing of a source
\* A parser is constructed on a source and parse() is run on it, one tag or
\* text of the source at a time.

MaxItems == 4

Text_blank == TextItem(<<" ">>)

Ego_assistant == TagItem("ego", <<"@", "_", "@">>, <<>>, <<>>)

Ego_system == TagItem("ego", <<"x", "_", "x">>, <<>>, <<>>)

\* the tag <||>, which builds no span
EmptyTag == TagItem("empty", <<>>, <<>>, <<>>)

\* a text that begins with a blank
Text_lead == TextItem(<<" ", "t">>)

\* The items of the sources parsed: texts, role tags of two roles, a reset,
\* the tags that need a role, a class tag with a body, a tag without span.
ParseItems ==
    { Text_t, Text_blank, Text_lead, Ego_user, Ego_assistant, Ego_system, Reset_train, Obj_xy,
      Class(<<"H">>),
      BodyItem(<<"B">>, <<Text_t, EmptyTag, Text_blank, Obj_xy>>), EmptyTag }

\* The sources parsed: a source has a tag between two texts.
ParseSources ==
    UNION { { src \in [1..n -> ParseItems] :
                \A k \in 1..(n - 1) : ~(src[k].tag = "text" /\ src[k + 1].tag = "text") } :
            n \in 0..MaxItems }

\* HolowareParser(code): p is the parser, n the position in the source,
\* result the template parse() returned
InitParse ==
    /\ ware = Holoware(<<>>)
    /\ row = <<>>
    /\ env = row
    /\ contexts = <<<<>>>>
    /\ span_bindings = <<>>
    /\ span_fragments = <<>>
    /\ holowares = <<>>
    /\ span = NoSpan
    /\ ego = "system"
    /\ errors = 0
    /\ stack = <<>>
    /\ pc = "idle"
    /\ exc = ""
    /\ calls = <<>>
    /\ journal = <<>>
    /\ peer = NoPhore
    /\ solo = NoPhore
    /\ rendered = NotRendered
    /\ \E src \in ParseSources :
          parser = [present |-> TRUE, items |-> src, n |-> 1, p |-> NewParser,
                    done |-> FALSE, result |-> NoBody]

\* One iteration of the loop of parse(): the next text, or the next tag with
\* the indented body that follows it; a ValueError ends parse().
ParseSpan ==
    /\ parser.present /\ ~parser.done
    /\ parser.n <= Len(parser.items)
    /\ LET parsed(r) == [parser EXCEPT !.p = r.p, !.n = r.n, !.done = r.p.failed]
       IN  parser' = parsed(parse_item(parser.p, parser.items, parser.n, <<"#">>))
    /\ UNCHANGED <<ware, row, env, contexts, span_bindings, span_fragments, holowares,
                   span, ego, errors, stack, pc, exc, calls, journal, peer, solo, rendered>>

\* The loop of parse() is over: _finalize_text_span, and the template is
\* returned.
ParseEnd ==
    /\ parser.present /\ ~parser.done
    /\ parser.n > Len(parser.items)
    /\ parser' = [parser EXCEPT !.p.spans = finalize_text_span(@),
                                !.done = TRUE,
                                !.result = Holoware(finalize_text_span(parser.p.spans))]
    /\ UNCHANGED <<ware, row, env, contexts, span_bindings, span_fragments, holowares,
                   span, ego, errors, stack, pc, exc, calls, journal, peer, solo, rendered>>

NextParse ==
    \/ ParseSpan
    \/ ParseEnd

SpecParse == InitParse /\ [][NextParse]_vars

\* ----------------------------------------------------- scanning of a source
\* A parser is constructed on the characters of a source and parse() is run
\* on it.

MaxCode == 5

\* the pieces the sources scanned are made of: a backslash, a role tag, a
\* letter, a blank, a comment sign, a newline
UserTag == <<"<", "|", "o", "_", "o", "|", ">">>

Pieces == { <<BS>>, UserTag, <<"t">>, <<" ">>, <<"#">>, <<NL>> }

\* the sources scanned
Codes == UNION { { Concat(src) : src \in [1..n -> Pieces] } : n \in 0..MaxCode }

\* HolowareParser(code)
InitScan ==
    /\ ware = Holoware(<<>>)
    /\ row = <<>>
    /\ env = row
    /\ contexts = <<<<>>>>
    /\ span_bindings = <<>>
    /\ span_fragments = <<>>
    /\ holowares = <<>>
    /\ span = NoSpan
    /\ ego = "system"
    /\ errors = 0
    /\ stack = <<>>
    /\ pc = "idle"
    /\ exc = ""
    /\ calls = <<>>
    /\ journal = <<>>
    /\ peer = NoPhore
    /\ solo = NoPhore
    /\ rendered = NotRendered
    /\ \E code \in Codes :
          parser = [present |-> TRUE, source |-> code, code |-> code, pos |-> 0, n |-> 1,
                    p |-> NewParser, begun |-> FALSE, done |-> FALSE, result |-> NoBody,
                    loaded |-> FALSE, given |-> code]

\* load_holoware: the text of the file is filtered before it is handed to
\* Holoware.parse, which filters it again.
LoadHoloware ==
    /\ parser.present /\ "loaded" \in DOMAIN parser
    /\ ~parser.loaded /\ ~parser.begun
    /\ parser' = [parser EXCEPT !.code = filter_comments(@), !.loaded = TRUE]
    /\ UNCHANGED <<ware, row, env, contexts, span_bindings, span_fragments, holowares,
                   span, ego, errors, stack, pc, exc, calls, journal, peer, solo, rendered>>

\* parse() begins: the comments are filtered out of the code it was given
ScanBegin ==
    /\ parser.present /\ ~parser.begun
    /\ parser' = [parser EXCEPT !.given = parser.code, !.code = filter_comments(@),
                                !.begun = TRUE]
    /\ UNCHANGED <<ware, row, env, contexts, span_bindings, span_fragments, holowares,
                   span, ego, errors, stack, pc, exc, calls, journal, peer, solo, rendered>>

\* One iteration of the loop of parse(); a ValueError ends parse().
ScanSpan ==
    /\ parser.present /\ parser.begun /\ ~parser.done
    /\ parser.pos < Len(parser.code)
    /\ LET c == parse_iteration(parser)
       IN  parser' = [c EXCEPT !.done = c.p.failed]
    /\ UNCHANGED <<ware, row, env, contexts, span_bindings, span_fragments, holowares,
                   span, ego, errors, stack, pc, exc, calls, journal, peer, solo, rendered>>

\* The loop of parse() is over: _finalize_text_span, and the template is
\* returned.
ScanEnd ==
    /\ parser.present /\ parser.begun /\ ~parser.done
    /\ parser.pos >= Len(parser.code)
    /\ parser' = [parser EXCEPT !.p.spans = finalize_text_span(@),
                                !.done = TRUE,
                                !.result = Holoware(finalize_text_span(parser.p.spans))]
    /\ UNCHANGED <<ware, row, env, contexts, span_bindings, span_fragments, holowares,
                   span, ego, errors, stack, pc, exc, calls, journal, peer, solo, rendered>>

NextScan ==
    \/ LoadHoloware
    \/ ScanBegin
    \/ ScanSpan
    \/ ScanEnd

SpecScan == InitScan /\ [][NextScan]_vars

\* ------------------------------------------------------ indented blocks
\* Sources with a Class tag and the lines after it are parsed.

MaxLines == 3

ClassTag == <<"<", "|", "C", "|", ">">>

EmptyTagText == <<"<", "|", "|", ">">>

\* how the sources begin: a Class tag after a role tag or a text, then
\* nothing, a tag that adds no span or a text on the line of the tag; a
\* Class tag with no role before it
Heads ==
    { UserTag \o ClassTag, UserTag \o ClassTag \o EmptyTagText,
      UserTag \o ClassTag \o UserTag, <<"t">> \o ClassTag, ClassTag,
      UserTag \o ClassTag \o <<" ", "v">> }

\* the lines after the first: empty, indented by one or two blanks, not
\* indented, with tags
Lines ==
    { <<>>, <<" ", "t">>, <<" ", " ", "u">>, <<"t">>, EmptyTagText,
      <<" ", "<", "|", "@", "_", "@", "|", ">">>, <<" ", "<", "|", "D", "|", ">">> }

\* a head and the lines after it, each behind a line break
BlockCodes ==
    UNION { { head \o Concat([k \in 1..n |-> <<NL>> \o lines[k]]) :
                head \in Heads, lines \in [1..n -> Lines] } : n \in 0..MaxLines }

\* HolowareParser(code)
InitBlock ==
    /\ ware = Holoware(<<>>)
    /\ row = <<>>
    /\ env = row
    /\ contexts = <<<<>>>>
    /\ span_bindings = <<>>
    /\ span_fragments = <<>>
    /\ holowares = <<>>
    /\ span = NoSpan
    /\ ego = "system"
    /\ errors = 0
    /\ stack = <<>>
    /\ pc = "idle"
    /\ exc = ""
    /\ calls = <<>>
    /\ journal = <<>>
    /\ peer = NoPhore
    /\ solo = NoPhore
    /\ rendered = NotRendered
    /\ \E code \in BlockCodes :
          parser = [present |-> TRUE, source |-> code, code |-> code, pos |-> 0, n |-> 1,
                    p |-> NewParser, begun |-> FALSE, done |-> FALSE, result |-> NoBody,
                    loaded |-> FALSE, given |-> code]

NextBlock ==
    \/ ScanBegin
    \/ ScanSpan
    \/ ScanEnd

SpecBlock == InitBlock /\ [][NextBlock]_vars

\* -------------------------------------------------------- the tags lexed
\* parse_span_tag and build_span are run on the text of a tag.

MaxArgs == 2

\* the first words of the tags lexed: the role sigils, bare and with an
\* id, the nine reset sigils, a class name, variable names
TagBases ==
    EGO_SIGILS \cup RESET_SIGILS
    \cup { <<"o", "_", "o", ":", "h">>, <<"@", "_", "@", ":", "h">>, <<"F">>,
           <<"x", "|", "y">>, <<"x">> }

\* the further words: a plain word, keywords (one named after a field of
\* the spans), fences, a quoted word, words
\* with an open quote, an empty <>, <> words with an =
TagArgs ==
    { <<"a">>, <<"k", "=", "v">>, <<"i", "d", "=", "w">>, <<"<", ">", "f">>,
      <<"f", "e", "n", "c", "e", "=", "g">>,
      <<"<", ">">>, <<"<", ">", "a", "=", "b">>, <<"\"", "b", " ", "c", "\"">>,
      <<"'", "c">>, <<"<", ">", "g">>, <<"<", ">", "=">> }

\* a base and its arguments, a blank between two words
RECURSIVE JoinWords(_)
JoinWords(words) ==
    IF words = <<>> THEN <<>>
    ELSE IF Len(words) = 1 THEN words[1]
    ELSE words[1] \o <<" ">> \o JoinWords(Tail(words))

\* the tags lexed, the empty tag and a blank one among them
Tags ==
    { <<>>, <<" ">> }
    \cup UNION { { JoinWords(<<base>> \o args) : base \in TagBases, args \in [1..n -> TagArgs] } :
                 n \in 0..MaxArgs }

\* A tag was found in a source: parse_span_tag and build_span have not run
\* on it.
InitTag ==
    /\ ware = Holoware(<<>>)
    /\ row = <<>>
    /\ env = row
    /\ contexts = <<<<>>>>
    /\ span_bindings = <<>>
    /\ span_fragments = <<>>
    /\ holowares = <<>>
    /\ span = NoSpan
    /\ ego = "system"
    /\ errors = 0
    /\ stack = <<>>
    /\ pc = "idle"
    /\ exc = ""
    /\ calls = <<>>
    /\ journal = <<>>
    /\ peer = NoPhore
    /\ solo = NoPhore
    /\ rendered = NotRendered
    /\ \E tag \in Tags :
          parser = [present |-> TRUE, tag |-> tag, lexed |-> FALSE, built |-> FALSE]

\* parse_span_tag(tag)
ParseSpanTag ==
    /\ parser.present /\ "tag" \in DOMAIN parser /\ ~parser.lexed
    /\ parser' = [present |-> TRUE, tag |-> parser.tag, lexed |-> TRUE,
                  built |-> parser.built, words |-> parse_span_tag(parser.tag)]
                 @@ parser
    /\ UNCHANGED <<ware, row, env, contexts, span_bindings, span_fragments, holowares,
                   span, ego, errors, stack, pc, exc, calls, journal, peer, solo, rendered>>

\* build_span(out, spantext) on an empty out
BuildSpan ==
    /\ parser.present /\ "tag" \in DOMAIN parser /\ ~parser.built
    /\ parser' = [present |-> TRUE, tag |-> parser.tag, lexed |-> parser.lexed,
                  built |-> TRUE, spans |-> tag_spans(parser.tag)]
                 @@ parser
    /\ UNCHANGED <<ware, row, env, contexts, span_bindings, span_fragments, holowares,
                   span, ego, errors, stack, pc, exc, calls, journal, peer, solo, rendered>>

NextTag ==
    \/ ParseSpanTag
    \/ BuildSpan

SpecTag == InitTag /\ [][NextTag]_vars

\* --------------------------------------------------------------- properties
\* The properties are stated over the history variables: calls (the hook
\* invocations) and journal (the spans dispatched, what the sampler returned
\* and what each handler appended).

Entries == 1..Len(journal)

\* the span a journal entry dispatched
SpanOf(e) == SpansAt(ware, e.path)[e.k]

\* every span of a span list, those of the bodies included
RECURSIVE SpansUnder(_)
SpansUnder(spans) ==
    UNION { {spans[k]} \cup (IF spans[k].body.present
                             THEN SpansUnder(spans[k].body.spans) ELSE {}) :
            k \in 1..Len(spans) }

ClassSpans == {sp \in SpansUnder(ware.spans) : sp.kind = "ClassSpan"}

\* the object bound to a span in the current state
Bound(sp) == binding([span_bindings |-> span_bindings], sp.uuid)

\* the hooks invoked for the span with this uuid, in order
HooksOf(uid) ==
    LET sel == SelectSeq(calls, LAMBDA c : c.uid = uid)
    IN  [n \in 1..Len(sel) |-> sel[n].hook]

\* the hooks a class span owes its object: the constructor and __holo_init__
\* of the class the span names, __holo__ and __holo_end__ of the bound object
Lifecycle(sp) ==
    <<"__init__">>
    \o (IF ClassDefs[get_class(Ph, sp.class_name)].has_holo_init
        THEN <<"__holo_init__">> ELSE <<>>)
    \o (IF hasattr(Bound(sp), "__holo__") THEN <<"__holo__">> ELSE <<>>)
    \o (IF hasattr(Bound(sp), "__holo_end__") THEN <<"__holo_end__">> ELSE <<>>)

\* the texts of a list of fragments
Texts(out) == [k \in 1..Len(out) |-> out[k].text]

\* whether entry n dispatched a Sample span with id X
IsSampleOf(n, X) ==
    SpanOf(journal[n]).kind = "SampleSpan" /\ SpanOf(journal[n]).id = X

\* the Sample spans with id X dispatched before entry n
Samples(n, X) == {m \in 1..(n - 1) : IsSampleOf(m, X)}

\* those of them whose sampler returned a non-empty result
Writes(n, X) == {m \in Samples(n, X) : Truthy(journal[m].sample)}

\* the payload of the Sample span entry m dispatched
PayloadOf(m) == Strip(SamplePayload(journal[m].sample, SpanOf(journal[m]).fence))

\* what env is expected to hold for X when entry n is dispatched: the
\* payload of the last Sample that wrote X, else the row's value
InEnvAt(n, X) == X \in DOMAIN row \/ Writes(n, X) # {}

ValueAt(n, X) ==
    IF Writes(n, X) # {} THEN PayloadOf(MaxOf(Writes(n, X))) ELSE StrOf(row[X])

\* the four fragment texts of one object injection
Injection(X, value) == <<ObjTag(X), value, <<"<", "/", "o", "b", "j", ">">>, <<NL>>>>

\* the values an Obj entry injected for X
Injected(e, X) ==
    { e.out[4 * j + 2].text :
        j \in {i \in 0..((Len(e.out) \div 4) - 1) : e.out[4 * i + 1].text = ObjTag(X)} }

\* the role expected after the first n entries: system at the start and
\* after a Reset, else the role of the last Ego
RoleAfter(n) ==
    LET marks == {m \in 1..n : SpanOf(journal[m]).kind \in {"EgoSpan", "ContextResetSpan"}}
        last == SpanOf(journal[MaxOf(marks)])
    IN  IF marks = {} THEN "system"
        ELSE IF last.kind = "EgoSpan" THEN last.ego ELSE "system"

\* the reference to the first fragment an entry appended
FirstRef(e) == CHOOSE r \in e.frags : \A q \in e.frags : r[2] <= q[2]

\* the first fragment an entry appended, as the rollout holds it now
FirstFrag(e) == contexts[FirstRef(e)[1]][FirstRef(e)[2]]

IsPrefix(p, q) == Len(p) <= Len(q) /\ SubSeq(q, 1, Len(p)) = p

\* b is a with newlines added at its start and its end
PaddedWithNewlines(a, b) ==
    /\ Len(b) >= Len(a)
    /\ \E i \in 0..(Len(b) - Len(a)) :
          b = Newlines(i) \o a \o Newlines(Len(b) - Len(a) - i)

\* s without the prefix p, when it has it
CutPrefix(s, p) == IF StartsWith(s, p) THEN SubSeq(s, Len(p) + 1, Len(s)) ELSE s

\* s without the suffix p, when it has it
CutSuffix(s, p) == IF EndsWith(s, p) THEN SubSeq(s, 1, Len(s) - Len(p)) ELSE s

\* C1: when an evaluation completes, every Class span bound to an instance
\* of a non-holostatic class has had its constructor, __holo_init__,
\* __holo__ and __holo_end__ (each when defined) invoked exactly once, in
\* that order, bodies evaluated as sub-templates included.
C1_LifecycleOnceInOrder ==
    pc = "returned" =>
        \A sp \in ClassSpans :
            (Bound(sp) # Unbound /\ Bound(sp).instance) =>
                HooksOf(sp.uuid) = Lifecycle(sp)

\* C2: an Obj span emits the four fragments of an injection for the first
\* of its var_ids that is a key of env, nothing for the later ones, and
\* nothing at all when none is a key of env.
C2_ObjFirstHitOnly ==
    \A n \in Entries :
        SpanOf(journal[n]).kind = "ObjSpan" =>
            LET ids == SpanOf(journal[n]).var_ids
                hits == {k \in 1..Len(ids) : InEnvAt(n, ids[k])}
                first == ids[MinOf(hits)]
            IN  Texts(journal[n].out) =
                    IF hits = {} THEN <<>> ELSE Injection(first, ValueAt(n, first))

\* C3: once the sampler has returned null or an empty string for a Sample
\* span, errors is positive and the evaluation does not return normally.
C3_NullSampleFailsEvaluation ==
    \A n \in Entries :
        (SpanOf(journal[n]).kind = "SampleSpan" /\ ~Truthy(journal[n].sample)) =>
            (errors > 0 /\ pc # "returned")

\* C4, as claimed: every fragment a Sample span emitted is REINFORCE and
\* every fragment any other span emitted is FROZEN.
C4_SampleFragmentsAllReinforce ==
    \A n \in Entries : \A r \in journal[n].frags :
        contexts[r[1]][r[2]].type =
            IF SpanOf(journal[n]).kind = "SampleSpan" THEN REINFORCE ELSE FROZEN

\* C4, amended: of the fragments a Sample span emitted, the first is its
\* opening tag <fence> and is FROZEN and the others are REINFORCE; every
\* fragment any other span emitted is FROZEN; every REINFORCE fragment of the
\* rollout was emitted by a Sample span.
C4_SampleReinforceButOpeningTag ==
    /\ \A n \in Entries : \A r \in journal[n].frags :
          LET e == journal[n]
              opening == SpanOf(e).fence # <<>> /\ r = FirstRef(e)
          IN  /\ contexts[r[1]][r[2]].type =
                    IF SpanOf(e).kind = "SampleSpan" /\ ~opening THEN REINFORCE ELSE FROZEN
              /\ (SpanOf(e).kind = "SampleSpan" /\ SpanOf(e).fence # <<>>) =>
                    e.out[1].text = OpenTag(SpanOf(e).fence)
    /\ \A c \in 1..Len(contexts) : \A k \in 1..Len(contexts[c]) :
          contexts[c][k].type = REINFORCE =>
              \E n \in Entries : /\ <<c, k>> \in journal[n].frags
                                 /\ SpanOf(journal[n]).kind = "SampleSpan"

\* a Sample span has emitted its opening tag and its text, and a Text, Obj
\* or Class span a fragment
C4_Witness ==
    /\ \E n \in Entries : /\ SpanOf(journal[n]).kind = "SampleSpan"
                          /\ Cardinality(journal[n].frags) = 2
    /\ \E n \in Entries : /\ SpanOf(journal[n]).kind \in {"TextSpan", "ObjSpan", "ClassSpan"}
                          /\ journal[n].frags # {}

\* one step keeps every context and every fragment in place, with its role
\* and mask, its text changed by added newlines at most
C5_Step ==
    /\ Len(contexts') >= Len(contexts)
    /\ \A c \in 1..Len(contexts) :
          /\ Len(contexts'[c]) >= Len(contexts[c])
          /\ \A k \in 1..Len(contexts[c]) :
                /\ contexts'[c][k].ego = contexts[c][k].ego
                /\ contexts'[c][k].type = contexts[c][k].type
                /\ PaddedWithNewlines(contexts[c][k].text, contexts'[c][k].text)

\* C5: each context's fragment list is append-only: no fragment is removed
\* or reordered, the role and mask of a fragment never change, and its text
\* changes only by newlines added at its start or end.
C5_FragmentsAppendOnly == [][C5_Step]_vars

\* the whitespace optimization has added newlines to an appended fragment
C5_Witness ==
    \E n \in Entries :
        /\ journal[n].frags # {}
        /\ FirstFrag(journal[n]).text = Newlines(3) \o journal[n].out[1].text

\* the last entry dispatched a Sample span with an id and a fence, and the
\* sampler returned a non-empty result
C6_Case ==
    /\ journal # <<>>
    /\ SpanOf(journal[Len(journal)]).kind = "SampleSpan"
    /\ SpanOf(journal[Len(journal)]).id # <<>>
    /\ SpanOf(journal[Len(journal)]).fence # <<>>
    /\ Truthy(journal[Len(journal)].sample)

\* C6: after a Sample span with id X and fence F is dispatched on a
\* non-empty sample s, env[X] is s without a leading <F> and without a
\* trailing </F>, whitespace-trimmed, and the REINFORCE fragment appended
\* is s, followed by </F> only when s did not end with it.
C6_SamplePayloadAndClosingTag ==
    C6_Case =>
        LET e == journal[Len(journal)]
            X == SpanOf(e).id
            F == SpanOf(e).fence
            s == e.sample
            appended == e.out[Len(e.out)]
        IN  /\ X \in DOMAIN env
            /\ env[X] = EnvStr(Strip(CutSuffix(CutPrefix(s, OpenTag(F)), CloseTag(F))))
            /\ appended.type = REINFORCE
            /\ appended.text = (IF EndsWith(s, CloseTag(F)) THEN s ELSE s \o CloseTag(F))
            /\ EndsWith(appended.text, CloseTag(F))
            /\ ~EndsWith(appended.text, CloseTag(F) \o CloseTag(F))

\* a sample that carries both fences and inner whitespace has been bound
C6_Witness ==
    /\ C6_Case
    /\ journal[Len(journal)].sample = OpenTag(FenceF) \o <<"s", " ">> \o CloseTag(FenceF)
    /\ env[VarX] = EnvStr(<<"s">>)

\* C7, as claimed: an Obj span naming X injects the payload of the Sample
\* with id X dispatched last before it, and the prior env value when none
\* was dispatched before it.
C7_ObjInjectsLastDispatchedSample ==
    \A n \in Entries :
        SpanOf(journal[n]).kind = "ObjSpan" =>
            \A k \in 1..Len(SpanOf(journal[n]).var_ids) :
                LET X == SpanOf(journal[n]).var_ids[k]
                    d == Samples(n, X)
                IN  IF d # {}
                    THEN /\ Truthy(journal[MaxOf(d)].sample)
                         /\ Injected(journal[n], X) = {PayloadOf(MaxOf(d))}
                    ELSE Injected(journal[n], X) =
                             IF X \in DOMAIN row THEN {StrOf(row[X])} ELSE {}

\* C7, amended: an Obj span naming X injects the payload of the last Sample
\* with id X dispatched before it whose sampler returned a non-empty result,
\* whatever env[X] held before; when there is none it injects the value the
\* evaluation started with, or nothing when there was none.
C7_ObjInjectsLastWrite ==
    \A n \in Entries :
        SpanOf(journal[n]).kind = "ObjSpan" =>
            \A k \in 1..Len(SpanOf(journal[n]).var_ids) :
                LET X == SpanOf(journal[n]).var_ids[k]
                    d == Writes(n, X)
                IN  Injected(journal[n], X) =
                        IF d # {} THEN {PayloadOf(MaxOf(d))}
                        ELSE IF X \in DOMAIN row THEN {StrOf(row[X])} ELSE {}

\* x held a value, a Sample wrote another in one context and an Obj span
\* injected it in a later context
C7_Witness ==
    /\ VarX \in DOMAIN row
    /\ \E n \in Entries :
          /\ SpanOf(journal[n]).kind = "ObjSpan"
          /\ Writes(n, VarX) # {}
          /\ Injected(journal[n], VarX) = {<<"s">>}
          /\ StrOf(row[VarX]) # <<"s">>
          /\ \E m \in MaxOf(Writes(n, VarX))..n :
                SpanOf(journal[m]).kind = "ContextResetSpan"

\* C8: the current role is system at the start and right after a Reset,
\* and else the role of the Ego dispatched last; every fragment carries the
\* role that was current when it was appended, never a null role.
C8_CurrentRole ==
    /\ ego = RoleAfter(Len(journal))
    /\ \A n \in Entries :
          /\ \A k \in 1..Len(journal[n].out) : journal[n].out[k].ego = RoleAfter(n - 1)
          /\ \A r \in journal[n].frags : contexts[r[1]][r[2]].ego = RoleAfter(n - 1)
    /\ \A c \in 1..Len(contexts) : \A k \in 1..Len(contexts[c]) :
          contexts[c][k].ego \in {"system", "user", "assistant"}

\* after an Ego and a Reset, text has been appended under the role system
C8_Witness ==
    \E n \in Entries :
        /\ SpanOf(journal[n]).kind = "TextSpan"
        /\ journal[n].out # <<>>
        /\ journal[n].out[1].ego = "system"
        /\ \E m \in 1..(n - 1) :
              /\ SpanOf(journal[m]).kind = "ContextResetSpan"
              /\ \E l \in 1..(m - 1) :
                    SpanOf(journal[l]).kind = "EgoSpan" /\ SpanOf(journal[l]).ego # "system"

\* the entries that entered the body of a Class span whose object has no __holo__
BodyEntries ==
    {n \in Entries : /\ SpanOf(journal[n]).kind = "ClassSpan"
                     /\ SpanOf(journal[n]).body.present
                     /\ ~hasattr(Bound(SpanOf(journal[n])), "__holo__")}

\* C9: when the body of a Class span whose object has no __holo__ has been
\* evaluated, the enclosing evaluation goes on and does not raise for a
\* span it cannot find.
C9_BodyEvaluationCompletes ==
    BodyEntries # {} => ~(pc = "raised" /\ exc = "ValueError")

\* the entries that dispatched a Class span whose object has __holo__
HoloEntries ==
    {n \in Entries : /\ SpanOf(journal[n]).kind = "ClassSpan"
                     /\ hasattr(Bound(SpanOf(journal[n])), "__holo__")}

\* C10: dispatching a Class span whose object defines __holo__ invokes it
\* once; a non-empty return is appended as exactly one FROZEN fragment
\* under the current role, an empty one appends nothing; the body of the
\* span is not evaluated.
C10_HoloOnceOneFragmentNoBody ==
    \A n \in HoloEntries :
        LET e == journal[n]
            sp == SpanOf(e)
            ret == ClassDefs[Bound(sp).cls].holo_returns
        IN  /\ Len(SelectSeq(HooksOf(sp.uuid), LAMBDA h : h = "__holo__")) = 1
            /\ e.out = IF Truthy(ret) THEN <<Frag(ret, RoleAfter(n - 1), FROZEN)>> ELSE <<>>
            /\ \A m \in Entries : ~IsPrefix(e.path \o <<e.k>>, journal[m].path)
            /\ \A f \in 1..Len(stack) : ~IsPrefix(e.path \o <<e.k>>, stack[f].path)
            /\ sp.body.present =>
                  \A b \in SpansUnder(sp.body.spans) :
                      /\ \A i \in 1..Len(span_bindings) : span_bindings[i].uid # b.uuid
                      /\ b.uuid \notin DOMAIN span_fragments

\* an evaluation has returned in which a Class span with a body and a
\* __holo__ that returns text, and one whose __holo__ returns nothing, were
\* dispatched
C10_Witness ==
    /\ pc = "returned"
    /\ \E n \in HoloEntries : SpanOf(journal[n]).body.present /\ Len(journal[n].out) = 1
    /\ \E n \in HoloEntries : journal[n].out = <<>>

\* the top-level Class spans that name a class neither env nor the registry holds
UnknownClassSpans ==
    {k \in 1..Len(ware.spans) :
        /\ ware.spans[k].kind = "ClassSpan"
        /\ ware.spans[k].class_name \notin Registry
        /\ ware.spans[k].class_name \notin DOMAIN row}

\* C11 as stated: when a top-level Class span names a class found neither
\* in env nor in the registry, the evaluation fails with ClassNotFound
\* during instantiation, before any span is dispatched: no fragment, no
\* context, and the role is still the initial one.
C11_ClassNotFoundBeforeDispatch ==
    UnknownClassSpans # {} =>
        /\ pc \in {"idle", "raised"}
        /\ pc = "raised" => exc = "ClassNotFound"
        /\ journal = <<>>
        /\ contexts = <<>>
        /\ span_fragments = <<>>
        /\ ego = "system"

\* The positions of the top-level Class spans whose name env maps to a
\* value that is not a class.
NonClassSpans ==
    {k \in 1..Len(ware.spans) :
        /\ ware.spans[k].kind = "ClassSpan"
        /\ ware.spans[k].class_name \in DOMAIN row
        /\ EnvTruthy(row[ware.spans[k].class_name])
        /\ ~row[ware.spans[k].class_name].isClass}

\* C11, amended: when a top-level Class span names a class found neither in
\* env nor in the registry, the evaluation fails during instantiation,
\* before any span is dispatched: no fragment, no context, and the role is
\* still the initial one.  It fails with ClassNotFound, unless env maps the
\* name of a Class span before the first such span to a value that is not a
\* class: then it fails at that span, with TypeError.
C11_FailsInInstantiation ==
    UnknownClassSpans # {} =>
        /\ pc \in {"idle", "raised"}
        /\ pc = "raised" =>
              exc = IF \E k \in NonClassSpans : k < MinOf(UnknownClassSpans)
                    THEN "TypeError" ELSE "ClassNotFound"
        /\ journal = <<>>
        /\ contexts = <<>>
        /\ span_fragments = <<>>
        /\ ego = "system"

\* the evaluation of a template with an unknown class, after an Ego span and
\* a class of env before it that was constructed, has failed with
\* ClassNotFound
C11_Witness ==
    /\ UnknownClassSpans # {}
    /\ pc = "raised"
    /\ exc = "ClassNotFound"
    /\ \E k \in 1..Len(ware.spans) :
          /\ k < MinOf(UnknownClassSpans)
          /\ ware.spans[k].kind = "EgoSpan"
    /\ \E k \in 1..Len(ware.spans) :
          /\ k < MinOf(UnknownClassSpans)
          /\ ware.spans[k].kind = "ClassSpan"
          /\ ware.spans[k].class_name \in DOMAIN row
    /\ calls # <<>>

\* The journal entries of the dispatched training resets, in dispatch order.
TrainResets ==
    SelectSeq(journal, LAMBDA e : SpanOf(e).kind = "ContextResetSpan" /\ SpanOf(e).train)

\* The 0-based indices, in the rollout's context list, of the contexts the
\* training resets opened.
TrainedOpened == [n \in 1..Len(TrainResets) |-> TrainResets[n].ctx - 1]

\* C12: after a completed evaluation on an empty rollout, trained_contexts
\* is exactly the list of the 0-based indices, in the rollout's context list,
\* of the contexts opened by the resets with train = true.
C12_TrainedContextsAreContextIndices ==
    pc = "returned" => trained_contexts(ware) = TrainedOpened

\* The fragments the handlers of the first n dispatches appended while the
\* rollout had c contexts, in dispatch order.
RECURSIVE EmittedInto(_, _)
EmittedInto(c, n) ==
    IF n = 0 THEN <<>>
    ELSE EmittedInto(c, n - 1) \o (IF journal[n].ctx = c THEN journal[n].out ELSE <<>>)

\* the fragment g is the fragment f, with newlines added around its text
SameFragment(f, g) ==
    /\ f.ego = g.ego
    /\ f.type = g.type
    /\ PaddedWithNewlines(f.text, g.text)

\* the number of contexts the rollout had before dispatch n
ContextsBefore(n) == IF n = 1 THEN 0 ELSE journal[n - 1].ctx

\* The fragments out[j + 1..j + 4] are one injection of a variable of sp.
IsInjection(sp, out, j) ==
    /\ \E v \in 1..Len(sp.var_ids) : out[j + 1].text = ObjTag(sp.var_ids[v])
    /\ out[j + 2].text \in {StrOf(val) : val \in {row[x] : x \in DOMAIN row}}
                           \cup {SamplePayload(o, FenceF) : o \in SampleOutputs}
    /\ out[j + 3].text = <<"<", "/", "o", "b", "j", ">">>
    /\ out[j + 4].text = <<NL>>

\* The opening tag of the Sample span whose handler called the sampler and
\* has not written the sample, because the sampler has not returned or
\* because it raised, in the context c the tag was written to.
Awaited(c) ==
    LET sp == SpansAt(ware, span.path)[span.k]
    IN  IF /\ pc = "sampling" \/ (pc = "raised" /\ exc = "SamplerError")
           /\ c = Len(contexts)
           /\ sp.fence # <<>>
        THEN <<Frag(OpenTag(sp.fence), ego, FROZEN)>>
        ELSE <<>>

\* C13: the spans of a template are dispatched in template order and every
\* context holds, in dispatch order, the fragments the spans emitted into it
\* (up to the newlines of whitespace optimization); each reset opens the
\* next context of the rollout; and the fragments of an Obj span are runs of
\* four contiguous fragments: opening tag, value, closing tag, newline.
C13_FragmentsInSpanOrder ==
    /\ \A a, b \in Entries :
          a < b /\ journal[a].path = journal[b].path => journal[a].k < journal[b].k
    /\ \A c \in 1..Len(contexts) :
          LET out == EmittedInto(c, Len(journal)) \o Awaited(c)
          IN  /\ Len(contexts[c]) = Len(out)
              /\ \A k \in 1..Len(out) : SameFragment(out[k], contexts[c][k])
    /\ \A n \in Entries :
          journal[n].ctx =
              IF \/ SpanOf(journal[n]).kind = "ContextResetSpan"
                 \/ (ContextsBefore(n) = 0 /\ journal[n].out # <<>>)
              THEN ContextsBefore(n) + 1 ELSE ContextsBefore(n)
    /\ \A n \in Entries :
          SpanOf(journal[n]).kind = "ObjSpan" =>
              /\ Len(journal[n].out) % 4 = 0
              /\ \A j \in 0..(Len(journal[n].out) \div 4 - 1) :
                    IsInjection(SpanOf(journal[n]), journal[n].out, 4 * j)

\* a completed evaluation with two contexts, the second holding a text
\* fragment followed by the eight fragments of an Obj span with two values
C13_Witness ==
    /\ pc = "returned"
    /\ Len(contexts) = 2
    /\ \E n \in Entries :
          /\ SpanOf(journal[n]).kind = "ObjSpan"
          /\ Len(journal[n].out) = 8
          /\ journal[n].ctx = 2
          /\ \E m \in 1..(n - 1) :
                /\ SpanOf(journal[m]).kind = "TextSpan"
                /\ journal[m].ctx = 2

\* what the sampler returned to an evaluation, in order
SamplesOf(p) == [n \in 1..Len(p.journal) |-> p.journal[n].sample]

\* the evaluation p is over
Finished(p) == p.pc \in {"returned", "raised"}

\* The evaluation p was constructed like the one that ran alone and its
\* sampler returned the same samples.
LikeSolo(p) == p.row = solo.row /\ SamplesOf(p) = SamplesOf(solo)

\* the evaluation p ended as the one that ran alone
SameOutcome(p) ==
    /\ p.pc = solo.pc
    /\ p.exc = solo.exc
    /\ p.contexts = solo.contexts
    /\ p.env = solo.env
    /\ p.span_fragments = solo.span_fragments
    /\ p.span_bindings = solo.span_bindings
    /\ p.calls = solo.calls

\* C14: when two evaluations of one template on two phores are interleaved
\* between span dispatches and while a sampler is awaited, each evaluation
\* whose phore was constructed
\* with the row of an evaluation that ran alone, and whose sampler returned
\* the same samples, ends with the contexts, fragments, env, bindings and
\* exception of that evaluation.
C14_InterleavedAsAlone ==
    solo.present =>
        \A p \in {Active, peer} : Finished(p) /\ LikeSolo(p) => SameOutcome(p)

\* both evaluations are over, they were switched while both were in their
\* main loop, both are like the one that ran alone, and fragments were emitted
C14_Witness ==
    /\ solo.present
    /\ solo.mixed
    /\ Finished(Active) /\ LikeSolo(Active)
    /\ Finished(peer) /\ LikeSolo(peer)
    /\ solo.contexts # <<>>
    /\ solo.journal # <<>>

\* all references to fragments of the rollout
Refs == UNION { { <<c, k>> : k \in 1..Len(contexts[c]) } : c \in 1..Len(contexts) }

\* An iteration of a main loop ends in this step (that of the dispatched
\* span, or that of a Class span whose body returns), and with it a run of
\* optimize_block.
IterationEnds ==
    /\ pc \in {"running", "sampling"} /\ pc' = "running"
    /\ stack' # <<>>
    /\ Len(stack') <= Len(stack)

\* the frame of the main loop whose iteration ends
EndingFrame == stack[Len(stack')]

\* The fragments emitted by the middle span of the window of the run of
\* optimize_block at the end of the iteration: the span dispatched two
\* iterations earlier by the same main loop.
MiddleFrags ==
    UNION { journal[n].frags : n \in { e \in Entries :
                /\ journal[e].path = EndingFrame.path
                /\ journal[e].k = EndingFrame.i - 1 } }

\* the reference r is not after any reference of the set S
IsFirstOf(r, S) == r \in S /\ \A q \in S : r[1] < q[1] \/ (r[1] = q[1] /\ r[2] <= q[2])

IsLastOf(r, S) == r \in S /\ \A q \in S : q[1] < r[1] \/ (q[1] = r[1] /\ q[2] <= r[2])

\* In a step that ends an iteration, a fragment that is changed was emitted
\* by the middle span, only its text changes, and newlines are prepended
\* when it is the first and appended when it is the last of that span.
C15_Step ==
    IterationEnds =>
        /\ \A r \in Refs :
              LET old == contexts[r[1]][r[2]]
                  new == contexts'[r[1]][r[2]]
              IN  new # old =>
                      /\ r \in MiddleFrags
                      /\ new.ego = old.ego /\ new.type = old.type
                      /\ \E a, b \in 0..3 :
                            /\ new.text = Newlines(a) \o old.text \o Newlines(b)
                            /\ a > 0 => IsFirstOf(r, MiddleFrags)
                            /\ b > 0 => IsLastOf(r, MiddleFrags)
        /\ journal' # journal =>
              Emitted(contexts, contexts') = journal'[Len(journal')].out

\* C15: each run of the whitespace optimization changes only fragments
\* that the middle span of its window emitted, and only by prepending
\* newlines to the first or appending newlines to the last of them; no
\* fragment emitted by another span is changed.
C15_OptimizeOnlyMiddleSpan == [][C15_Step]_vars

\* the texts of the fragments referenced by S, in rollout order, concatenated
RECURSIVE TextOfRefs(_)
TextOfRefs(S) ==
    IF S = {} THEN <<>>
    ELSE LET r == CHOOSE q \in S : IsFirstOf(q, S)
         IN  contexts[r[1]][r[2]].text \o TextOfRefs(S \ {r})

\* the text the span of entry n emitted, as emitted
EmittedText(n) == Concat(Texts(journal[n].out))

\* the text of the fragments the span of entry n emitted, as they are now
FinalText(n) == TextOfRefs(journal[n].frags)

\* the text, as it is now, of the span k of the template of entry n
\* (empty when that span was not dispatched or emitted nothing)
FinalTextOfSpan(n, k) ==
    LET es == {e \in Entries : journal[e].path = journal[n].path /\ journal[e].k = k}
    IN  IF es = {} THEN <<>> ELSE FinalText(CHOOSE e \in es : TRUE)

\* the number of newlines t starts with, and ends with
LeadingNewlines(t) ==
    LET keep == {i \in 1..Len(t) : t[i] # NL}
    IN  IF keep = {} THEN Len(t) ELSE MinOf(keep) - 1

TrailingNewlines(t) == Len(t) - Len(RStripChar(t, NL))

\* the entries of the spans at 0-based index 2 or more of their template
\* whose emitted text contains a tag block
TagBlockEntries ==
    {n \in Entries : journal[n].k >= 3 /\ tag_pattern_search(EmittedText(n))}

\* C16: when an evaluation has completed, every span at index 2 or more
\* whose emitted text contains a tag block has at least three newlines at
\* the boundary with the text of the preceding span and, when a span
\* follows it, at the boundary with the text of the following span.
C16_TagBlocksSpaced ==
    pc = "returned" =>
        \A n \in TagBlockEntries :
            LET k == journal[n].k
                last == Len(SpansAt(ware, journal[n].path))
            IN  /\ TrailingNewlines(FinalTextOfSpan(n, k - 1))
                       + LeadingNewlines(FinalText(n)) >= 3
                /\ k < last =>
                       TrailingNewlines(FinalText(n))
                           + LeadingNewlines(FinalTextOfSpan(n, k + 1)) >= 3

\* re.search of <think>\s*\n*\s*</think> in t, other than <think></think>
BlankThinkSearch(t) ==
    \E i \in 1..Len(t) :
        /\ MatchAt(t, i, OpenTag(<<"t", "h", "i", "n", "k">>))
        /\ \E j \in (i + 8)..Len(t) :
              /\ \A m \in (i + 7)..(j - 1) : IsSpace(t[m])
              /\ MatchAt(t, j, CloseTag(<<"t", "h", "i", "n", "k">>))

\* C17: after a completed evaluation no fragment holds a think block whose
\* inside is only whitespace: it has been rewritten to <think></think>.
C17_NoBlankThinkBlock ==
    pc = "returned" => \A r \in Refs : ~BlankThinkSearch(contexts[r[1]][r[2]].text)

\* the Class spans whose class is marked holostatic
HolostaticSpans ==
    {sp \in ClassSpans :
        /\ get_class([env |-> row], sp.class_name) # NoneVal
        /\ ClassDefs[get_class([env |-> row], sp.class_name)].holostatic}

\* the class object a span names
ClassObject(sp) == [cls |-> get_class([env |-> row], sp.class_name), instance |-> FALSE]

\* C18: for a Class span whose class is holostatic, neither the constructor
\* nor __holo_init__ is ever called, the span is bound to nothing but the
\* class object, and every hook invoked for it receives the class object.
C18_HolostaticNeverInstantiated ==
    \A sp \in HolostaticSpans :
        /\ Bound(sp) \in {Unbound, ClassObject(sp)}
        /\ \A n \in 1..Len(calls) :
              calls[n].uid = sp.uuid =>
                  /\ calls[n].hook \in {"__holo__", "__holo_end__"}
                  /\ calls[n].recv = ClassObject(sp)

\* a completed evaluation in which __holo__ and __holo_end__ of a
\* holostatic class were invoked, and its text inserted
C18_Witness ==
    /\ pc = "returned"
    /\ \E sp \in HolostaticSpans :
          /\ Bound(sp) = ClassObject(sp)
          /\ HooksOf(sp.uuid) = <<"__holo__", "__holo_end__">>
          /\ \E c \in 1..Len(contexts) : \E k \in 1..Len(contexts[c]) :
                contexts[c][k].text = ClassDefs[sp.class_name].holo_returns

\* the normalized role of the fragment i of the rendered context
RoleAt(i) == normalize_role(contexts[1][i].ego, i = 1)

\* The maximal runs of consecutive fragments with equal normalized role, as
\* pairs <<first, last>>, ordered: a run starts at the first fragment and
\* wherever the normalized role differs from that of the fragment before.
RunStarts == {i \in 1..Len(contexts[1]) : i = 1 \/ RoleAt(i) # RoleAt(i - 1)}

RunFrom(i) ==
    <<i, MinOf({j \in i..Len(contexts[1]) : j = Len(contexts[1]) \/ (j + 1) \in RunStarts})>>

RECURSIVE RunsFrom(_)
RunsFrom(i) ==
    IF i > Len(contexts[1]) THEN <<>>
    ELSE <<RunFrom(i)>> \o RunsFrom(RunFrom(i)[2] + 1)

Runs == RunsFrom(1)

\* the texts of the fragments of a run, concatenated
RunText(run) == Concat([k \in 1..(run[2] - run[1] + 1) |-> contexts[1][run[1] + k - 1].text])

\* the runs that get a message: those with text, all of them when dry
MessageRuns == SelectSeq(Runs, LAMBDA run : RunText(run) # <<>> \/ rendered.render_dry)

\* C19: to_api_messages emits one message for each maximal run of
\* consecutive fragments with equal normalized role that has text (for
\* each run when dry), in run order, with the normalized role of the run
\* and, up to whitespace at its ends, the text of the run; so two
\* consecutive fragments with the same normalized role are never in two
\* messages.
C19_OneMessagePerRun ==
    rendered.present =>
        /\ Len(rendered.messages) = Len(MessageRuns)
        /\ \A n \in 1..Len(MessageRuns) :
              /\ rendered.messages[n].role = RoleAt(MessageRuns[n][1])
              /\ Strip(rendered.messages[n].content) = Strip(RunText(MessageRuns[n]))

\* three fragments in two runs, the first of two fragments whose egos
\* differ and normalize to one role, rendered as two messages
C19_Witness ==
    /\ rendered.present
    /\ Len(contexts[1]) = 3
    /\ Runs = << <<1, 2>>, <<3, 3>> >>
    /\ contexts[1][1].ego # contexts[1][2].ego
    /\ contexts[1][1].text # <<>> /\ contexts[1][2].text # <<>>
    /\ Len(rendered.messages) = 2

\* C20: every message of to_api_messages, the last one included, has as
\* content the concatenation of the texts of its run, stripped.
C20_ContentsStripped ==
    rendered.present =>
        /\ Len(rendered.messages) = Len(MessageRuns)
        /\ \A n \in 1..Len(MessageRuns) :
              rendered.messages[n].content = Strip(RunText(MessageRuns[n]))

\* C21: when not dry, to_api_messages emits no message whose content is
\* empty; when dry, every run of same-role fragments yields a message.
C21_EmptyMessagesOnlyWhenDry ==
    rendered.present =>
        /\ ~rendered.render_dry =>
              \A n \in 1..Len(rendered.messages) : rendered.messages[n].content # <<>>
        /\ rendered.render_dry => Len(rendered.messages) = Len(Runs)


\* the last fragment normalizes to "assistant" and has empty text
OpenAssistantTail ==
    LET fragments == contexts[1]
    IN  /\ fragments # <<>>
        /\ RoleAt(Len(fragments)) = "assistant"
        /\ fragments[Len(fragments)].text = <<>>

\* the last run of same-role fragments yielded the last message
FinalRunHasMessage ==
    Runs # <<>> /\ RunText(Runs[Len(Runs)]) # <<>>

\* C22: to_api_string joins one closed block per message with newlines; when
\* the last fragment is an empty assistant fragment, the string ends with the
\* open assistant header and has no closed block for that final turn.
C22_OpenTailReplacesFinalBlock ==
    "string" \in DOMAIN rendered =>
        LET blocks == [n \in 1..Len(rendered.messages) |-> Block(rendered.messages[n])]
            closed == IF FinalRunHasMessage THEN SubSeq(blocks, 1, Len(blocks) - 1) ELSE blocks
        IN  IF OpenAssistantTail
            THEN rendered.string = JoinLines(Append(closed, IM_START \o RoleChars("assistant")))
            ELSE rendered.string = JoinLines(blocks)


\* C23: unless the last fragment is an empty assistant fragment, from_text
\* parses what to_api_string returned, and the parsed context renders to the
\* same messages as the original.
C23_StringRoundTrip ==
    ("parsed" \in DOMAIN rendered /\ ~OpenAssistantTail) =>
        /\ ~rendered.parsed.raised
        /\ to_api_messages(rendered.parsed.fragments, FALSE) = rendered.messages


\* the messages of the role asked for (any message when the role is None)
OfRole(n) == rendered.role = NoRole \/ rendered.messages[n].role = rendered.role

\* the inner texts of the occurrences of the tag asked for in message n
Occurrences(n) == xml_matches(rendered.messages[n].content, Lower(rendered.tag), 1)

\* an extraction of a named tag has been made
Extracted == "extracted" \in DOMAIN rendered /\ rendered.tag # <<>>

\* C24 (as stated): extract_xml_tag consults only the latest message of the
\* role: it returns the inner text of the last occurrence of the tag there,
\* and None when that message has no occurrence.
C24_OnlyLatestMessageOfRole ==
    Extracted =>
        LET ofrole == {n \in 1..Len(rendered.messages) : OfRole(n)}
        IN  IF ofrole = {} \/ Occurrences(MaxOf(ofrole \cup {1})) = <<>>
            THEN rendered.extracted = NoneVal
            ELSE rendered.extracted =
                     Occurrences(MaxOf(ofrole))[Len(Occurrences(MaxOf(ofrole)))]

\* C24 (amended): extract_xml_tag returns the inner text of the last
\* occurrence of the tag in the latest message of the role that has one, and
\* None only when no message of the role has an occurrence.
C24_LatestMessageOfRoleWithTag ==
    Extracted =>
        LET tagged == {n \in 1..Len(rendered.messages) : OfRole(n) /\ Occurrences(n) # <<>>}
        IN  IF tagged = {}
            THEN rendered.extracted = NoneVal
            ELSE rendered.extracted =
                     Occurrences(MaxOf(tagged))[Len(Occurrences(MaxOf(tagged)))]

\* the latest message of the role has no occurrence, an earlier one has, and
\* the inner text of the earlier one was returned
C24_Witness ==
    /\ Extracted
    /\ rendered.role # NoRole
    /\ \E n \in 1..Len(rendered.messages), k \in 1..Len(rendered.messages) :
          /\ k < n
          /\ OfRole(n) /\ OfRole(k)
          /\ \A j \in (n + 1)..Len(rendered.messages) : ~OfRole(j)
          /\ Occurrences(n) = <<>>
          /\ Occurrences(k) # <<>>
          /\ rendered.extracted = Occurrences(k)[Len(Occurrences(k))]
          /\ rendered.extracted # NoneVal


\* the positions <<path, k>> of the spans of a span list reached by path,
\* those of the bodies included
RECURSIVE PositionsUnder(_, _)
PositionsUnder(spans, path) ==
    UNION { {<<path, k>>} \cup (IF spans[k].body.present
                                THEN PositionsUnder(spans[k].body.spans, path \o <<k>>)
                                ELSE {}) :
            k \in 1..Len(spans) }

\* C25: no two distinct spans of the parsed template, nested bodies
\* included, have the same uuid, and the fragments recorded under one uuid
\* were all appended for one span.
C25_SpanUuidsDistinct ==
    /\ \A p, q \in PositionsUnder(ware.spans, <<>>) :
          p # q => SpansAt(ware, p[1])[p[2]].uuid # SpansAt(ware, q[1])[q[2]].uuid
    /\ \A e, f \in Entries :
          (journal[e].out # <<>> /\ journal[f].out # <<>>
              /\ SpanOf(journal[e]).uuid = SpanOf(journal[f]).uuid)
          => (journal[e].path = journal[f].path /\ journal[e].k = journal[f].k)


\* the parser is about to take a tag that builds an Obj or Class span, and
\* has no current role (a Sample span is built after the Ego span of its own
\* tag, which gives the parser a role)
ReachedWithoutRole ==
    /\ parser.present /\ ~parser.done
    /\ parser.n <= Len(parser.items)
    /\ parser.items[parser.n].tag \in {"obj", "class"}
    /\ parser.p.ego = ""

\* one Ego(system) is put at the front of the span list, the span of the tag
\* at its end, and parsing goes on
ImplicitEgoInserted ==
    LET before == parser.p.spans
        after == parser'.p.spans
    IN  /\ ~parser'.done /\ ~parser'.p.failed
        /\ Len(after) = Len(before) + 2
        /\ after[1].kind = "EgoSpan" /\ after[1].ego = "system"
        /\ SubSeq(after, 2, Len(before) + 1) = before
        /\ after[Len(after)].kind \in {"ObjSpan", "ClassSpan"}
        /\ parser'.p.ego = "system"

\* parse() raises ValueError and returns no template
ParseFailed ==
    /\ parser'.done /\ parser'.p.failed
    /\ ~parser'.result.present

\* what a step of the parser does with such a tag
NoRoleStep ==
    ReachedWithoutRole =>
        IF /\ parser.p.spans # <<>>
           /\ \A k \in 1..Len(parser.p.spans) :
                 parser.p.spans[k].kind \notin {"EgoSpan", "ContextResetSpan"}
        THEN ImplicitEgoInserted
        ELSE ParseFailed

\* C26: a span that needs a role and finds none gets one
\* Ego(system) at the front of the span list when neither an Ego nor a Reset
\* is in the list; parsing fails when one is, or when the list is empty.
C26_NoImplicitEgoAfterEgoOrReset == [][NoRoleStep]_vars


\* the kinds of the spans strictly between positions a and b of the parser's
\* span list show neither a Reset nor an Ego of another role than that of a
NothingBetween(a, b) ==
    \A k \in (a + 1)..(b - 1) :
        /\ parser.p.spans[k].kind # "ContextResetSpan"
        /\ parser.p.spans[k].kind = "EgoSpan" => parser.p.spans[k].ego = parser.p.spans[a].ego

\* no two Ego spans of one role without a Reset or an Ego of another role
\* between them
NoTwoEgosOfOneRole ==
    parser.present =>
        \A a, b \in 1..Len(parser.p.spans) :
            (/\ a < b
             /\ parser.p.spans[a].kind = "EgoSpan" /\ parser.p.spans[b].kind = "EgoSpan"
             /\ parser.p.spans[a].ego = parser.p.spans[b].ego)
            => ~NothingBetween(a, b)

\* an Ego tag of the current role adds no span; an Ego tag that follows a
\* Reset adds its span
EgoTagStep ==
    (/\ parser.present /\ ~parser.done
     /\ parser.n <= Len(parser.items)
     /\ parser.items[parser.n].tag = "ego" /\ parser.items[parser.n].fence = <<>>)
    => LET role == EGO_MAP(parser.items[parser.n].base)
           before == parser.p.spans
       IN  /\ parser.p.ego = role => parser'.p.spans = before
           /\ (before # <<>> /\ before[Len(before)].kind = "ContextResetSpan")
                  => /\ Len(parser'.p.spans) = Len(before) + 1
                     /\ parser'.p.spans[Len(before) + 1].kind = "EgoSpan"
                     /\ parser'.p.spans[Len(before) + 1].ego = role

\* C27: an Ego tag of the parser's current role adds no span, the span
\* list never holds two Ego spans of one role with neither a Reset nor an
\* Ego of another role between them, and an Ego that follows a Reset is
\* kept, whatever its role.
C27_DuplicateEgosCoalesced == []NoTwoEgosOfOneRole /\ [][EgoTagStep]_vars


\* the span lists of a template: its own, and those of the bodies under it
RECURSIVE SpanListsUnder(_)
SpanListsUnder(spans) ==
    {spans} \cup UNION { IF spans[k].body.present
                         THEN SpanListsUnder(spans[k].body.spans) ELSE {} :
                         k \in 1..Len(spans) }

\* C30: in the template parse() returns, and in every body under it, no two
\* Text spans are adjacent and no Text span is empty or only whitespace.
C30_TextSpansMergedAndNotBlank ==
    (parser.present /\ parser.result.present) =>
        \A spans \in SpanListsUnder(parser.result.spans) :
            \A k \in 1..Len(spans) :
                spans[k].kind = "TextSpan" =>
                    /\ Strip(spans[k].text) # <<>>
                    /\ k < Len(spans) => spans[k + 1].kind # "TextSpan"

\* a template was returned for a source with a blank text and with texts
\* around a tag that added no span, which were merged
C30_Witness ==
    /\ parser.present /\ parser.result.present
    /\ \E k \in 1..Len(parser.items) : parser.items[k] = Text_blank
    /\ \E k \in 1..Len(parser.result.spans) :
          /\ parser.result.spans[k].kind = "TextSpan"
          /\ Len(parser.result.spans[k].text) > 1
    /\ \E k \in 1..Len(parser.result.spans) : parser.result.spans[k].body.present


\* n backslashes
RECURSIVE Backslashes(_)
Backslashes(n) == IF n = 0 THEN <<>> ELSE <<BS>> \o Backslashes(n - 1)

\* the kinds of the spans of the template parse() returned
ResultKinds == [k \in 1..Len(parser.result.spans) |-> parser.result.spans[k].kind]

\* C28: a source of n backslashes and <|o_o|> parses, for n even, to an
\* Ego(user) span, after a Text span of n/2 backslashes when n > 0; for n odd,
\* to one Text span of (n-1)/2 backslashes and the characters <|o_o|>.
C28_BackslashesBeforeTag ==
    \A n \in 0..MaxCode :
        (/\ parser.present /\ parser.done
         /\ "source" \in DOMAIN parser
         /\ parser.source = Backslashes(n) \o UserTag)
        => /\ parser.result.present
           /\ n = 0 =>
                 /\ ResultKinds = <<"EgoSpan">>
                 /\ parser.result.spans[1].ego = "user"
           /\ (n > 0 /\ n % 2 = 0) =>
                 /\ ResultKinds = <<"TextSpan", "EgoSpan">>
                 /\ parser.result.spans[1].text = Backslashes(n \div 2)
                 /\ parser.result.spans[2].ego = "user"
           /\ n % 2 = 1 =>
                 /\ ResultKinds = <<"TextSpan">>
                 /\ parser.result.spans[1].text = Backslashes((n - 1) \div 2) \o UserTag

\* three backslashes and the tag were parsed to one Text span
C28_Witness ==
    /\ parser.present /\ parser.done
    /\ "source" \in DOMAIN parser
    /\ parser.source = Backslashes(3) \o UserTag
    /\ ResultKinds = <<"TextSpan">>
    /\ parser.result.spans[1].text = <<BS>> \o UserTag


\* the parse of the source is over
Scanned == parser.present /\ parser.done /\ "source" \in DOMAIN parser

\* the source holds no <| and does not end in a lone backslash
PlainSource ==
    /\ \A i \in 1..Len(parser.source) : ~MatchAt(parser.source, i, <<"<", "|">>)
    /\ num_backslashes(parser.source, Len(parser.source)) % 2 = 0

\* the template returned is one Text span with the text of the source
OneTextOfSource ==
    /\ parser.result.present
    /\ ResultKinds = <<"TextSpan">>
    /\ parser.result.spans[1].text = parser.source

\* C29 (as stated): a source without <| that does not end in a lone
\* backslash parses to one Text span whose text is the source.
C29_PlainTextIsOneSpan == (Scanned /\ PlainSource) => OneTextOfSource

\* the source is not blank, none of its lines starts with # after blanks,
\* and it holds no two backslashes in a row
NothingToFilter ==
    /\ Strip(parser.source) # <<>>
    /\ \A k \in 1..Len(Split(parser.source, NL)) :
          ~StartsWith(Strip(Split(parser.source, NL)[k]), <<"#">>)
    /\ \A i \in 1..Len(parser.source) : ~MatchAt(parser.source, i, <<BS, BS>>)

\* C29 (amended): a source without <| that does not end in a lone backslash,
\* is not blank, has no comment line and no doubled backslash parses to one
\* Text span whose text is the source.
C29_PlainTextWithoutEscapesIsOneSpan ==
    (Scanned /\ PlainSource /\ NothingToFilter) => OneTextOfSource

\* a source with a backslash, a # and a leading blank was parsed to one Text
\* span with the same text
C29_Witness ==
    /\ Scanned /\ PlainSource /\ NothingToFilter
    /\ OneTextOfSource
    /\ \E i \in 1..Len(parser.source) : parser.source[i] = BS
    /\ \E i \in 1..Len(parser.source) : parser.source[i] = "#"
    /\ parser.source[1] = " "


\* C31: in the template parse() returns, and in every body under it, a Text
\* span that comes right after a span of another kind does not begin with
\* whitespace.
C31_TextAfterSpanHasNoLeadingSpace ==
    (parser.present /\ parser.result.present) =>
        \A spans \in SpanListsUnder(parser.result.spans) :
            \A k \in 2..Len(spans) :
                (spans[k].kind = "TextSpan" /\ spans[k - 1].kind # "TextSpan") =>
                    ~IsSpace(spans[k].text[1])


\* build_span has run on the tag
Built == parser.present /\ "spans" \in DOMAIN parser

\* C32: the tag of each of the nine reset sigils builds exactly one Reset
\* span, which trains exactly when the sigil is +++.
C32_ResetSigilBuildsOneReset ==
    (Built /\ parser.tag \in RESET_SIGILS) =>
        /\ parser.spans.raised = ""
        /\ Len(parser.spans.out) = 1
        /\ parser.spans.out[1].kind = "ContextResetSpan"
        /\ parser.spans.out[1].train = (parser.tag = <<"+", "+", "+">>)


\* the words of the tag, as parse_span_tag returns them
TagWords == parse_span_tag(Strip(parser.tag))

\* the base of the tag is a role sigil followed by :id
SigilWithId ==
    /\ TagWords.raised = ""
    /\ \E sigil \in EGO_SIGILS :
          /\ StartsWith(TagWords.base, sigil \o <<":">>)
          /\ Len(TagWords.base) > Len(sigil) + 1

SigilOf == SubSeq(TagWords.base, 1, 3)

IdOf == SubSeq(TagWords.base, 5, Len(TagWords.base))

\* a <>F or fence=F keyword is among the words of the tag
HasFence == DictHas(TagWords.kwargs, ANGLE) \/ DictHas(TagWords.kwargs, FENCE)

FenceOf ==
    IF DictHas(TagWords.kwargs, ANGLE) THEN DictGet(TagWords.kwargs, ANGLE)
    ELSE DictGet(TagWords.kwargs, FENCE)

\* C33: a tag whose base is a role sigil with an :id builds an Ego span of
\* the role of the sigil whose handle is the id; with a fence keyword a
\* Sample span follows, with that fence, the id, the positional arguments
\* and the keywords that are not fences.
C33_SigilWithIdBuildsEgo ==
    (Built /\ SigilWithId) =>
        /\ parser.spans.raised = ""
        /\ Len(parser.spans.out) = (IF HasFence THEN 2 ELSE 1)
        /\ parser.spans.out[1].kind = "EgoSpan"
        /\ parser.spans.out[1].ego = RoleChars(EGO_MAP(SigilOf))
        /\ parser.spans.out[1].uuid = IdOf
        /\ HasFence =>
              /\ parser.spans.out[2].kind = "SampleSpan"
              /\ parser.spans.out[2].fence = FenceOf
              /\ parser.spans.out[2].id = IdOf
              /\ parser.spans.out[2].kargs = TagWords.kargs
              /\ parser.spans.out[2].kwargs
                    = SelectSeq(TagWords.kwargs, LAMBDA kv : kv.key \notin {ANGLE, FENCE})


\* The words after the base sorted as stated: a word that starts with <>
\* is the keyword <> (EmptyAngleAttr when nothing follows the <>), any
\* other word with an = is a keyword split at its first =, the rest are
\* positional, in the order of the source.
RECURSIVE Classified(_, _, _, _)
Classified(parts, i, kargs, kwargs) ==
    IF i > Len(parts)
    THEN [raised |-> "", base |-> parts[1], kargs |-> kargs, kwargs |-> kwargs]
    ELSE LET part == parts[i]
             eq == {k \in 1..Len(part) : part[k] = "="}
         IN  IF part = ANGLE
             THEN [raised |-> "EmptyAngleAttr", base |-> <<>>, kargs |-> <<>>,
                   kwargs |-> <<>>]
             ELSE IF StartsWith(part, ANGLE)
             THEN Classified(parts, i + 1, kargs,
                             DictSet(kwargs, ANGLE, SubSeq(part, 3, Len(part))))
             ELSE IF eq # {}
             THEN Classified(parts, i + 1, kargs,
                             DictSet(kwargs, SubSeq(part, 1, MinOf(eq) - 1),
                                     SubSeq(part, MinOf(eq) + 1, Len(part))))
             ELSE Classified(parts, i + 1, Append(kargs, part), kwargs)

\* parse_span_tag has run on the tag
Lexed == parser.present /\ "words" \in DOMAIN parser

\* C35: parse_span_tag fails with QuoteError on a tag with an open quote
\* and otherwise returns the first word as the base and the other words
\* sorted as stated, with EmptyAngleAttr for a bare <>.
C35_TagWordsClassified ==
    Lexed =>
        LET split == shlex_split(parser.tag)
        IN  IF split.raised # "" THEN parser.words.raised = "QuoteError"
            ELSE IF split.parts = <<>> THEN parser.words.raised = ""
            ELSE parser.words = Classified(split.parts, 2, <<>>, <<>>)


\* parse() has filtered the code it was given
Filtered == parser.present /\ "given" \in DOMAIN parser /\ parser.begun

\* the first character of the line that is not whitespace is a #
CommentLine(line) ==
    \E j \in 1..Len(line) : line[j] = "#" /\ \A i \in 1..(j - 1) : IsSpace(line[i])

\* the lines of a text that are not comment lines, in their order
KeptLines(text) == SelectSeq(Split(text, NL), LAMBDA line : ~CommentLine(line))

\* C36: the lines of the filtered code are the lines of the code given
\* that are not comment lines, unchanged and in their order (no text is
\* left when every line is a comment); and code that load_holoware has
\* filtered already is not changed by the filter of parse().
C36_CommentLinesRemovedOnce ==
    Filtered =>
        /\ IF KeptLines(parser.given) = <<>> THEN parser.code = <<>>
           ELSE Split(parser.code, NL) = KeptLines(parser.given)
        /\ parser.loaded => parser.code = parser.given

\* load_holoware and then parse() filtered a source with a comment line
\* after blanks and a line that holds a # behind other text
C36_Witness ==
    /\ Filtered /\ parser.loaded
    /\ parser.given # parser.source
    /\ \E k \in 1..Len(Split(parser.source, NL)) :
          LET line == Split(parser.source, NL)[k]
          IN  CommentLine(line) /\ line[1] # "#"
    /\ \E k \in 1..Len(Split(parser.code, NL)) :
          \E j \in 1..Len(Split(parser.code, NL)[k]) : Split(parser.code, NL)[k][j] = "#"


\* parse() has returned the template of a source with the tag <|C|>
ParsedClass ==
    /\ parser.present /\ parser.done /\ parser.result.present
    /\ "source" \in DOMAIN parser
    /\ Find(parser.source, ClassTag, 0) >= 0

\* the source behind the tag <|C|>
AfterClassTag ==
    SubSeq(parser.source, Find(parser.source, ClassTag, 0) + Len(ClassTag) + 1,
           Len(parser.source))

\* the lines that follow the line of the tag <|C|>, each with its line break
NextLines == Tail(SplitLines(AfterClassTag))

\* the tag <|C|> ends its line and a line with text follows
LineFollows ==
    /\ AfterClassTag # <<>> /\ AfterClassTag[1] = NL
    /\ NextLines # <<>> /\ Strip(NextLines[1]) # <<>>

\* the count of the lines from the next line on that are blank or indented
\* at least as much as the next line
BlockLength ==
    LET indent(k) == LeadingSpaces(NextLines[k])
    IN  MaxOf({m \in 1..Len(NextLines) :
                 \A k \in 1..m : Strip(NextLines[k]) = <<>> \/ indent(k) >= indent(1)})

\* the Class span of the tag <|C|> in the template returned
ClassSpanC ==
    parser.result.spans[CHOOSE k \in 1..Len(parser.result.spans) :
                            parser.result.spans[k].class_name = <<"C">>]

\* the texts of a span list, those of the bodies not included
OuterText(spans) ==
    Concat([k \in 1..Len(spans) |-> IF spans[k].kind = "TextSpan" THEN spans[k].text
                                    ELSE <<>>])

\* the kinds, texts, roles and bodies of the spans, without their uuids
RECURSIVE Shape(_)
Shape(spans) ==
    [k \in 1..Len(spans) |->
        <<spans[k].kind, spans[k].text, spans[k].ego, spans[k].class_name,
          IF spans[k].body.present THEN Shape(spans[k].body.spans) ELSE <<"None">> >>]

\* C34: when the line after the tag <|C|> is indented, the body of the
\* Class span is the parse of that line and the lines after it that are
\* blank or indented as much, dedented, and the outer spans hold the texts
\* of the other lines only; when that line is not indented the Class span
\* has no body and the text of the line is in the outer spans.
C34_IndentedBlockIsBody ==
    (ParsedClass /\ LineFollows) =>
        LET block == Concat(SubSeq(NextLines, 1, BlockLength))
            rest == Concat(SubSeq(NextLines, BlockLength + 1, Len(NextLines)))
            body == parse_code(dedent(block), <<"#">>)
        IN  IF LeadingSpaces(NextLines[1]) > 0
            THEN /\ ClassSpanC.body.present
                 /\ Shape(ClassSpanC.body.spans) = Shape(body.spans)
                 /\ Len(OuterText(parser.result.spans)) <= Len(parser.source) - Len(block)
            ELSE /\ ~ClassSpanC.body.present
                 /\ NextLines[1][1] # "<" =>
                       \E k \in 2..Len(parser.result.spans) :
                           /\ parser.result.spans[k - 1] = ClassSpanC
                           /\ parser.result.spans[k].kind = "TextSpan"
                           /\ StartsWith(parser.result.spans[k].text, Strip(NextLines[1]))


\* the parser holds a Class span of the tag <|C|> that has a body
ClassCHasBody ==
    /\ parser.present /\ "source" \in DOMAIN parser /\ parser.begun
    /\ \E k \in 1..Len(parser.p.spans) :
          parser.p.spans[k].class_name = <<"C">> /\ parser.p.spans[k].body.present

\* the body of that span
BodyOfC ==
    parser.p.spans[CHOOSE k \in 1..Len(parser.p.spans) :
                       parser.p.spans[k].class_name = <<"C">>].body

\* the indented block right behind the tag <|C|>
OwnBlock ==
    read_indented_block_content(parser.code,
                                Find(parser.code, ClassTag, 0) + Len(ClassTag))

\* C37: a Class span has a body only when an indented block follows its
\* own tag, and its body is the parse of that block: a tag without a span
\* between the Class tag and a later block neither gives the Class span
\* that block as its body nor replaces its body by it.
C37_BodyOnlyFromOwnBlock ==
    ClassCHasBody =>
        /\ ~OwnBlock.none
        /\ Shape(BodyOfC.spans) = Shape(parse_code(dedent(OwnBlock.content), <<"#">>).spans)


\* the entries of Sample spans whose sampler returned null or an empty string
NullSamples ==
    {n \in Entries : SpanOf(journal[n]).kind = "SampleSpan" /\ ~Truthy(journal[n].sample)}

\* what such a span emitted: its opening tag, FROZEN, when it has a fence,
\* and nothing else
NullSampleEmitsOpeningTagOnly ==
    \A n \in NullSamples :
        LET fence == SpanOf(journal[n]).fence
        IN  IF fence = <<>> THEN journal[n].out = <<>>
            ELSE /\ Len(journal[n].out) = 1
                 /\ journal[n].out[1].text = OpenTag(fence)
                 /\ journal[n].out[1].type = FROZEN

\* the step of such a span leaves env as it was
NullSampleStep ==
    (Len(journal') = Len(journal) + 1 /\ Len(journal') \in NullSamples') => env' = env

\* C38: a Sample span whose sampler returned null or an empty string emits
\* no REINFORCE fragment, only its FROZEN opening tag <fence>, and its step
\* leaves env unchanged.
C38_NullSampleLeavesEnv == []NullSampleEmitsOpeningTagOnly /\ [][NullSampleStep]_vars

\* the sampler returned an empty string and null for Sample spans with a
\* fence and an id that env held already
C38_Witness ==
    /\ \E n \in NullSamples :
          /\ SpanOf(journal[n]).fence # <<>> /\ SpanOf(journal[n]).id \in DOMAIN env
          /\ journal[n].sample = <<>>
    /\ \E n \in NullSamples : journal[n].sample = NoneVal


\* C39: when the call of the template has exited, by returning or by
\* raising, the stack of templates of the phore is empty again, as it was
\* when the call was entered; while the evaluation runs, the stack holds the
\* templates of the calls entered and not yet exited, the bodies included.
C39_TemplateStackRestored ==
    /\ pc \in {"returned", "raised"} => holowares = <<>>
    /\ pc \in {"running", "sampling"} =>
          holowares = [k \in 1..Len(stack) |-> stack[k].path]

====
